---- MODULE Spec2Model ----
(***************************************************************************)
(* Model of the debugger protocol translator VsDebugSessionTranslator      *)
(* (modules/nuclide-debugger-common/VsDebugSessionTranslator.js).          *)
(*                                                                         *)
(* The translator is a set of Rx subscriptions over two inputs: the client *)
(* commands (processCommand) and the adapter session's events.  JavaScript *)
(* runs a callback to its end and an async function to its next await;     *)
(* what follows an await is a promise job.  An action of this model is one *)
(* callback: a command's synchronous part, or the arrival of an adapter    *)
(* response or event.  Where the callback ends the turn, the action runs   *)
(* the queued jobs as well; where another callback of the same source      *)
(* follows in the turn (the next message of a chunk, the next command of   *)
(* the client), the jobs stay queued and the next action finds them there. *)
(*                                                                         *)
(* Specifications that start in Init let turns be shared in this way;      *)
(* those that start in InitOneByOne give every callback a turn of its own. *)
(*                                                                         *)
(* Spec      command router: startup sequencing, the buffered breakpoint   *)
(*           commands, launch failure, exception filters.                  *)
(* SpecSync  the breakpoint commands of a session that starts and goes on. *)
(* SpecFilters  the exception filters: Debugger.setPauseOnExceptions       *)
(*           before and after startup, on a session without breakpoints,   *)
(*           with initilize(), dispose() and the output events.            *)
(* SpecLatest  Debugger.setPauseOnExceptions commands that overtake one    *)
(*           another, some in the same turn.                               *)
(* SpecStop  event translator: one stopped event with its stack fetches,   *)
(*           thread and continued events, and the commands that move or    *)
(*           clear the active paused thread.                               *)
(* SpecPaused  stopped events one after the other, with the continued      *)
(*           events that cancel them, some in the same chunk.              *)
(* SpecStops  stopped events that overlap, and Debugger.selectThread.      *)
(* SpecLedger  the breakpoints of one file, with an adapter that moves     *)
(*           breakpoints, leaves some unverified, sends breakpoint events  *)
(*           and restarts.                                                 *)
(* SpecResults  the answers to Debugger.setBreakpointByUrl, with a         *)
(*           breakpoint event before, after or in the chunk of a response. *)
(* SpecEvents  the breakpoint events of an attached session.               *)
(* SpecRemove  Debugger.removeBreakpoint next to                           *)
(*           Debugger.setBreakpointByUrl in a session that has started.    *)
(* SpecRestart  adapter restarts: the re-sync after each initialized event *)
(*           but the first.                                                *)
(* SpecLocation  Debugger.continueToLocation.                              *)
(* SpecTransport  the message transport under the session (V8Protocol):    *)
(*           sequence numbers and the table of pending requests.           *)
(* SpecCommands  the commands answered from one awaited call, and what a   *)
(*           rejection does to the router.                                 *)
(* SpecReplies  the steps, Debugger.pause, completions, properties and the *)
(*           acknowledged settings.                                        *)
(* SpecStack  Debugger.getThreadStack for the threads of several stops.    *)
(* SpecDecoder  the transport's decoder (V8Protocol._handleData) over the  *)
(*           characters the adapter writes.                                *)
(* SpecStream  the decoder under a stream that emits the adapter's frames  *)
(*           in chunks of any length.                                      *)
(* SpecUri   the terminal URIs: infoFromUri and its trust token.           *)
(***************************************************************************)
EXTENDS Integers, Sequences, FiniteSets, TLC

(***************************************************************************)
(* Bounds of the model.                                                    *)
(***************************************************************************)
MaxCommands == 3        \* client commands in one session
MaxInitialized == 2     \* initialized events the adapter sends
MaxRestartInitialized == 3  \* initialized events where restarts are studied
MaxLine == 1            \* client (0-based) line numbers are 0..MaxLine
MaxStops == 2           \* stopped events the adapter sends
MaxThreadEvents == 1    \* thread events the adapter sends
MaxContinued == 1       \* continued events the adapter sends
MaxThreads == 2         \* the adapter's thread ids are 1..MaxThreads
MaxSelects == 1         \* client commands where stops are studied
MaxBreakpointEvents == 2  \* breakpoint events the adapter sends
MaxWrites == 4          \* frames the transport writes
MaxDispatch == 3        \* messages the transport receives
MaxColumn == 2          \* client column numbers are 0..MaxColumn, or absent
MaxBuffer == 60         \* characters the decoder's buffer is let to hold
MaxUnread == 46         \* characters written and not yet emitted: two frames
MaxOutputs == 1         \* output events the adapter sends
MaxMicrotasks == 2      \* a callback may follow in a turn with fewer jobs queued
MaxSharedTurns == 1     \* turns in which a callback follows a queued job

Paths == {"a", "b"}
ClientLines == 0 .. MaxLine
PauseStates == {"none", "uncaught", "all"}
ThreadIds == 1 .. MaxThreads

Null == "null"          \* JavaScript null/undefined of a string-valued field
None == << >>           \* JavaScript null/undefined of a number-valued field
Some(x) == << x >>

(***************************************************************************)
(* Small helpers.                                                          *)
(***************************************************************************)
Digits == << "0", "1", "2", "3", "4", "5", "6", "7", "8", "9" >>

\* String(n) for the non-negative numbers the model uses as breakpoint ids.
RECURSIVE ToStr(_)
ToStr(n) == IF n < 10 THEN Digits[n + 1]
            ELSE ToStr(n \div 10) \o Digits[(n % 10) + 1]

Range(s) == { s[i] : i \in 1 .. Len(s) }

Map(s, F(_)) == [ i \in 1 .. Len(s) |-> F(s[i]) ]

RECURSIVE Flatten(_)
Flatten(ss) == IF ss = << >> THEN << >> ELSE Head(ss) \o Flatten(Tail(ss))

\* The distinct values of s in order of first occurrence (Map insertion order).
RECURSIVE Distinct(_)
Distinct(s) ==
  IF s = << >> THEN << >>
  ELSE LET init == Distinct(SubSeq(s, 1, Len(s) - 1))
           last == s[Len(s)]
       IN IF last \in Range(init) THEN init ELSE Append(init, last)

(***************************************************************************)
(* State.                                                                  *)
(***************************************************************************)
VARIABLES
  breakpoints,            \* _breakpoints: the ledger, in insertion order
  lastBreakpointId,       \* _lastBreakpointId
  configDoneSent,         \* _configDoneSent
  exceptionFilters,       \* _exceptionFilters
  threadsById,            \* _threadsById: the Map's entries, in insertion order
  pausedThreadId,         \* _pausedThreadId
  pausedThreadIdPrevious, \* _pausedThreadIdPrevious
  activated,              \* history: the threads _pausedThreadId has named
  initializedCount,       \* initialized events seen by the session
  capabilities,           \* the adapter's capabilities (getCapabilities())
  bpStage,                \* where Observable.concat(buffer, steady) stands
  buffered,               \* commands collected by .buffer()
  resumeCount,            \* Debugger.resume commands seen (take(1)/skip(1))
  startup,                \* the startup handler: pc and its commands
  syncs,                  \* per-file setBreakpoints tasks in flight
  switchLatest,           \* the current inner of each switchMap
  routerErrored,          \* the _handleCommands subscription ended in an error
  microtasks,             \* the promise jobs queued, in order
  turn,                   \* whose callbacks the turn under way runs, if one is
  turnsToShare,           \* turns left in which a callback may follow a queued job
  stops,                  \* the stopped events and how far each has come
  fetches,                \* the stack fetches awaiting their frames
  pending,                \* adapter requests awaiting their response
  adapterFilters,         \* filters of the last setExceptionBreakpoints sent
  adapterLines,           \* path -> lines of the last setBreakpoints sent
  responses,              \* command id -> responses sent to the client
  events,                 \* events sent to the client, in order, but for
  threadsUpdated,         \* the last Debugger.threadsUpdated sent, if any
  notifications,          \* sendAtomNotification calls, in order
  userOutput,             \* sendUserOutputMessage calls, in order
  disposed,               \* dispose() has run
  nextId,                 \* id of the next client command
  nextUid,                \* identity of the next ledger object
  eventCount,             \* adapter events so far, by kind
  debugMode,              \* _debugMode: launch or attach
  adapterType,            \* _adapterType
  sequence,               \* V8Protocol._sequence
  pendingRequests,        \* V8Protocol._pendingRequests: the seqs with a callback
  written,                \* the frames written to _outputStream, in order
  futures,                \* seq -> the promise of send() and its callback's calls
  reverseResponses,       \* the response objects made for the adapter's requests
  received,               \* the messages handed to _dispatch, in order
  serverErrors,           \* onServerError calls
  rawDataBuffer,          \* V8Protocol._rawData, one character per element
  contentLength,          \* V8Protocol._contentLength
  unread,                 \* what the adapter wrote and the stream has not emitted
  readable,               \* the adapter's output stream: open or ended
  opened                  \* the last call of infoFromUri and its outcome

ledgerVars == << breakpoints, lastBreakpointId, nextUid >>
threadVars == << threadsById, pausedThreadId, pausedThreadIdPrevious,
                 activated, stops, fetches, eventCount >>
decoderVars == << rawDataBuffer, contentLength >>
streamVars == << readable, unread >>
transportVars == << sequence, pendingRequests, written, futures,
                    reverseResponses, received, serverErrors, decoderVars,
                    streamVars >>
sessionVars == << initializedCount, capabilities, debugMode, adapterType,
                  opened, transportVars >>
pipeVars == << bpStage, buffered, resumeCount, startup, syncs, switchLatest,
              routerErrored, microtasks, turn,
              turnsToShare >>
ioVars == << pending, adapterFilters, adapterLines, responses, events,
            threadsUpdated, notifications, userOutput, disposed,
            nextId >>
flagVars == << configDoneSent, exceptionFilters >>

vars == << ledgerVars, threadVars, sessionVars, pipeVars, ioVars, flagVars >>

\* Everything but the transport.
translatorVars == << ledgerVars, threadVars, initializedCount, capabilities,
                     debugMode, adapterType, opened, pipeVars, ioVars,
                     flagVars >>

(***************************************************************************)
(* Client protocol messages.                                               *)
(***************************************************************************)
nuclideDebuggerLocation(scriptId, lineNumber, columnNumber) ==
  [ scriptId |-> scriptId, lineNumber |-> lineNumber,
    columnNumber |-> columnNumber ]

getFakeLoaderPauseEvent ==
  [ method |-> "Debugger.paused",
    params |-> [ callFrames |-> << >>, reason |-> "initial break",
                 data |-> << >> ] ]

getEmptyResponse(id) == [ id |-> id, result |-> << >> ]

getErrorResponse(id, message) == [ id |-> id, error |-> [ message |-> message ] ]

IsResponse(m) == "id" \in DOMAIN m
IsError(m) == "error" \in DOMAIN m
IsEvent(m, method) == "method" \in DOMAIN m /\ m.method = method

Command(id, method, params) == [ id |-> id, method |-> method, params |-> params ]

(***************************************************************************)
(* Adapter requests.  owner names the handler that awaits the response; a  *)
(* handler has at most one request of a command and file in flight.        *)
(***************************************************************************)
Request(command, owner, arguments) ==
  [ command |-> command, owner |-> owner, arguments |-> arguments ]

StartupOwner == << "startup", 0 >>
CommandOwner(kind, id) == << kind, id >>
RestartOwner(n) == << "restart", n >>

(***************************************************************************)
(* The breakpoint ledger.  A record is a JavaScript object; uid stands for *)
(* its identity, so that a task holding the object and a task holding a    *)
(* copy ({...bp}) can be told apart.                                       *)
(***************************************************************************)
OrEmpty(condition) == IF condition = Null THEN "" ELSE condition

\* A record that keeps the client's 0-based line.
NewTranslatorBpClientLine(uid, path, c) ==
  [ uid |-> uid, breakpointId |-> Null, path |-> path,
    lineNumber |-> c.params.lineNumber,
    condition |-> OrEmpty(c.params.condition),
    resolved |-> FALSE, hitCount |-> 0 ]

NewTranslatorBp(uid, path, c) ==
  [ uid |-> uid, breakpointId |-> Null, path |-> path,
    lineNumber |-> c.params.lineNumber + 1,
    condition |-> OrEmpty(c.params.condition),
    resolved |-> FALSE, hitCount |-> 0 ]

getBreakpointsForFilePath(ledger, path) ==
  SelectSeq(ledger, LAMBDA bp : bp.path = path)

\* An element of the array handed to _syncBreakpointsForFilePath: the ledger
\* object itself (shared) or a copy of one.
SharedItem(bp) == [ shared |-> TRUE, bp |-> bp ]
CopyItem(bp) == [ shared |-> FALSE, bp |-> bp ]

Live(ledger, item) ==
  IF item.shared
  THEN ledger[CHOOSE i \in 1 .. Len(ledger) : ledger[i].uid = item.bp.uid]
  ELSE item.bp

Store(ledger, bp) ==
  [ i \in 1 .. Len(ledger) |-> IF ledger[i].uid = bp.uid THEN bp ELSE ledger[i] ]

\* An update that copies the adapter's verified flag.
tryUpdateBreakpointCopiesVerified(breakpoint, vsBreakpoint) ==
  LET r1 == [ breakpoint EXCEPT !.resolved = vsBreakpoint.verified ]
  IN IF vsBreakpoint.line # None
     THEN [ r1 EXCEPT !.lineNumber = vsBreakpoint.line[1] ]
     ELSE r1

tryUpdateBreakpoint(breakpoint, vsBreakpoint) ==
  LET r1 == IF ~breakpoint.resolved /\ vsBreakpoint.verified
            THEN [ breakpoint EXCEPT !.resolved = TRUE ]
            ELSE breakpoint
  IN IF vsBreakpoint.line # None
     THEN [ r1 EXCEPT !.lineNumber = vsBreakpoint.line[1] ]
     ELSE r1

\* The forEach of _syncBreakpointsForFilePath over a response of the right
\* length: ids for the elements that have none, then _tryUpdateBreakpoint.
\* Only an update of a shared element reaches the ledger.
RECURSIVE ApplyVsBreakpoints(_, _, _, _, _)
ApplyVsBreakpoints(ledger, lastId, items, vsBreakpoints, i) ==
  IF i > Len(items)
  THEN [ ledger |-> ledger, lastId |-> lastId ]
  ELSE LET cur == Live(ledger, items[i])
           vs == vsBreakpoints[i]
           needId == cur.breakpointId = Null
           synth == needId /\ vs.id = None
           lastId2 == IF synth THEN lastId + 1 ELSE lastId
           withId == IF needId
                     THEN [ cur EXCEPT !.breakpointId =
                              ToStr(IF synth THEN lastId2 ELSE vs.id[1]) ]
                     ELSE cur
           updated == tryUpdateBreakpoint(withId, vs)
           ledger2 == IF items[i].shared THEN Store(ledger, updated) ELSE ledger
       IN ApplyVsBreakpoints(ledger2, lastId2, items, vsBreakpoints, i + 1)

CountMismatch(got, wanted) ==
  "Failed to set breakpoints - count mismatch! "
    \o ToString(got) \o " vs. " \o ToString(wanted)

\* The arguments of the setBreakpoints request for a list of items.
SetBreakpointsArgs(ledger, path, items) ==
  [ source |-> [ path |-> path ],
    lines |-> Map(items, LAMBDA it : Live(ledger, it).lineNumber),
    breakpoints |-> Map(items, LAMBDA it :
                      [ line |-> Live(ledger, it).lineNumber,
                        condition |-> Live(ledger, it).condition ]) ]

\* The synchronous part of _setBulkBreakpoints for one url: the new records
\* (pushed to the ledger) followed by copies of the file's older records
\* that are on none of the new lines.
GroupItems(ledger, uid, path, commands) ==
  LET existing == getBreakpointsForFilePath(ledger, path)
      news == [ i \in 1 .. Len(commands) |->
                  NewTranslatorBp(uid + i - 1, path, commands[i]) ]
      breakOnLineNumbers == { news[i].lineNumber : i \in 1 .. Len(news) }
  IN [ news |-> news,
       items |-> Map(news, SharedItem) \o
                 Map(SelectSeq(existing,
                       LAMBDA tBp : tBp.lineNumber \notin breakOnLineNumbers),
                     CopyItem) ]

\* A response of one command that reports the line the client asked for.
SetBreakpointResultRequestedLine(ledger, item, command) ==
  LET bp == Live(ledger, item)
  IN [ id |-> command.id,
       result |-> [ breakpointId |-> bp.breakpointId,
                    locations |-> << nuclideDebuggerLocation(
                                       bp.path, command.params.lineNumber, 0) >>,
                    resolved |-> bp.resolved ] ]

\* The response of one command of a group, read from its own record.
SetBreakpointResult(ledger, item, command) ==
  LET bp == Live(ledger, item)
  IN [ id |-> command.id,
       result |-> [ breakpointId |-> bp.breakpointId,
                    locations |-> << nuclideDebuggerLocation(
                                       bp.path, bp.lineNumber - 1, 0) >>,
                    resolved |-> bp.resolved ] ]

UrlsOf(commands) == Distinct(Map(commands, LAMBDA c : c.params.url))

CommandsFor(commands, url) ==
  SelectSeq(commands, LAMBDA c : c.params.url = url)

SyncTask(owner, path, items, commands, pc) ==
  [ owner |-> owner, path |-> path, items |-> items, commands |-> commands,
    pc |-> pc, detached |-> FALSE, result |-> << >> ]

(***************************************************************************)
(* Continuations.  JavaScript runs a callback to its end, and an async     *)
(* function to its next await; the rest of the function is a promise job,  *)
(* which runs after the callback that settled the promise has returned and *)
(* after every job queued before it.  One callback of the transport        *)
(* dispatches all the messages of a chunk (V8Protocol._handleData), and a  *)
(* client may call processCommand several times in a turn, so that several *)
(* stimuli may come before the first job runs.                             *)
(*                                                                         *)
(* microtasks is the job queue.  A task names the continuation it leads to *)
(* (run), holds what the continuation has captured (a), and counts the     *)
(* jobs from the settlement to the continuation (ticks): one for the await *)
(* of the settled promise, one for each async function, Promise.all, or    *)
(* subscription to a promise that the value passes on its way, two where an *)
(* async function returns a promise.  The jobs before the last only pass   *)
(* the value on, so the queue holds the task until its last.               *)
(*                                                                         *)
(* turn names the source whose callbacks the open turn runs (the client,   *)
(* the adapter's transport, the file cache), and is Null between turns.    *)
(* Callbacks of different sources never share a turn.  turnsToShare bounds *)
(* the turns in which a callback follows queued jobs.                      *)
(*                                                                         *)
(* The variables a handler may change are gathered in one record, which    *)
(* the operators below transform and the action installs.                  *)
(***************************************************************************)
Now ==
  [ pend |-> pending, filters |-> adapterFilters, lines |-> adapterLines,
    resp |-> responses, ev |-> events, snapshot |-> threadsUpdated,
    notes |-> notifications, disp |-> disposed, startup |-> startup,
    stage |-> bpStage, syncs |-> syncs, cds |-> configDoneSent,
    ledger |-> breakpoints, lastId |-> lastBreakpointId, uid |-> nextUid,
    threads |-> threadsById, ptid |-> pausedThreadId,
    prev |-> pausedThreadIdPrevious, act |-> activated, stops |-> stops,
    dead |-> routerErrored, ready |-> initializedCount >= 1,
    fetches |-> fetches, out |-> userOutput, micro |-> microtasks,
    buffered |-> buffered, switchLatest |-> switchLatest,
    exceptionFilters |-> exceptionFilters ]

Install(st) ==
  /\ pending' = st.pend
  /\ adapterFilters' = st.filters
  /\ adapterLines' = st.lines
  /\ responses' = st.resp
  /\ events' = st.ev
  /\ threadsUpdated' = st.snapshot
  /\ notifications' = st.notes
  /\ disposed' = st.disp
  /\ startup' = st.startup
  /\ bpStage' = st.stage
  /\ syncs' = st.syncs
  /\ configDoneSent' = st.cds
  /\ breakpoints' = st.ledger
  /\ lastBreakpointId' = st.lastId
  /\ nextUid' = st.uid
  /\ threadsById' = st.threads
  /\ pausedThreadId' = st.ptid
  /\ pausedThreadIdPrevious' = st.prev
  /\ activated' = st.act
  /\ stops' = st.stops
  /\ routerErrored' = st.dead
  /\ fetches' = st.fetches
  /\ userOutput' = st.out
  /\ microtasks' = st.micro
  /\ buffered' = st.buffered
  /\ switchLatest' = st.switchLatest
  /\ exceptionFilters' = st.exceptionFilters

\* A promise settles: the continuation run is queued, ticks jobs away.
Defer(st, run, a, ticks) ==
  [ st EXCEPT !.micro = Append(@, [ run |-> run, a |-> a, ticks |-> ticks ]) ]

\* _sendMessageToClient for each message in turn: a response is filed under
\* its command id, an event joins the event stream.  Debugger.threadsUpdated
\* is a snapshot of the thread map, and the client holds the last one.
RECURSIVE sendMessageToClient(_, _)
sendMessageToClient(st, messages) ==
  IF messages = << >> THEN st
  ELSE LET m == Head(messages)
       IN sendMessageToClient(
            CASE IsResponse(m) -> [ st EXCEPT !.resp[m.id] = Append(@, m) ]
              [] IsEvent(m, "Debugger.threadsUpdated") ->
                   [ st EXCEPT !.snapshot = Some(m.params) ]
              [] OTHER -> [ st EXCEPT !.ev = Append(@, m) ],
            Tail(messages))

\* The subscriber of the command router (_handleCommands().subscribe): it
\* is gone once the translator is disposed or the merged stream has ended
\* in an error, and what a handler returns afterwards goes unheard.
Emit(st, messages) ==
  IF st.disp \/ st.dead THEN st ELSE sendMessageToClient(st, messages)

(***************************************************************************)
(* Commands answered from one awaited call.  A handler wrapped by          *)
(* catchCommandError turns a rejection into an error response; a rejection *)
(* that leaves an unwrapped handler is an error of the merged command      *)
(* stream, which ends the subscription of the constructor: later commands  *)
(* and the replies of the handlers in flight go unheard.                   *)
(***************************************************************************)
\* The call a wrapped handler awaits: FileCache.getFileSource for
\* Debugger.getScriptSource, the session's setVariable for
\* Debugger.setVariableValue.
CaughtCalls ==
  [ method \in { "Debugger.getScriptSource", "Debugger.setVariableValue" } |->
      IF method = "Debugger.getScriptSource"
      THEN [ call |-> "getFileSource", field |-> "scriptSource" ]
      ELSE [ call |-> "setVariable", field |-> "value" ] ]

\* The targets of the adapter's completions response.
CompletionTargets == << [ label |-> "toString" ] >>

\* Number(text) of the decimal text of a small natural number.
NumberFromStr(text) == CHOOSE n \in 0 .. 99 : ToStr(n) = text

\* The variables of the adapter's response: a number and an object.
VariablesOf(variablesReference) ==
  << [ name |-> "n", type |-> "int", value |-> "1", variablesReference |-> 0 ],
     [ name |-> "o", type |-> "object", value |-> "{}",
       variablesReference |-> variablesReference + 1 ] >>

\* _getProperties after its await.
PropertyDescriptors(variables) ==
  Map(variables, LAMBDA variable :
    [ name |-> variable.name,
      value |-> [ type |-> variable.type,
                  value |-> variable.value,
                  description |-> variable.value,
                  objectId |-> IF variable.variablesReference > 0
                               THEN ToStr(variable.variablesReference)
                               ELSE Null ],
      configurable |-> FALSE,
      enumerable |-> TRUE ])

\* What the handler of a command makes of the one call it awaits: the
\* response it returns or, from catchCommandError, the error response;
\* _evaluateOnCallFrame catches the failure itself.
HandlerReturns(request, success) ==
  LET id == request.owner[2]
      kind == request.owner[1]
  IN IF kind = "eval"
     THEN [ id |-> id,
            result |->
              IF success
              THEN [ result |-> [ type |-> "string", value |-> "body" ],
                     wasThrown |-> FALSE ]
              ELSE [ result |-> [ type |-> "undefined" ],
                     exceptionDetails |-> "AdapterError",
                     wasThrown |-> TRUE ] ]
     ELSE IF ~success THEN getErrorResponse(id, "AdapterError")
     ELSE IF kind = "caught"
     THEN [ id |-> id,
            result |-> [ f \in { CaughtCalls[request.arguments].field } |->
                           "body" ] ]
     ELSE IF kind = "completions"
     THEN [ id |-> id, result |-> [ targets |-> CompletionTargets ] ]
     ELSE IF kind = "properties"
     THEN [ id |-> id,
            result |-> [ result |-> PropertyDescriptors(
                           VariablesOf(request.arguments.variablesReference)) ] ]
     ELSE getEmptyResponse(id)

\* The switchMap a handler's answer has to pass, if any: the kind of the
\* command and its id.
SwitchedBy(owner) ==
  IF owner[1] \in { "exc", "location" } THEN << owner[1], owner[2] >>
  ELSE << >>

(***************************************************************************)
(* The session.  A request is written to the adapter and its promise is    *)
(* pending; the promise settles with the adapter's response, or fails when *)
(* the session is disposed.  The requests of the FileCache (registerFile,  *)
(* getFileSource) are kept with the session's, and outlive it.             *)
(***************************************************************************)
IsSessionRequest(request) ==
  request.command \notin { "registerFile", "getFileSource" }

\* The promise of a session request settles: the function that awaits it
\* goes on one job later, or the handler's answer is emitted after the jobs
\* that pass it through the handler, catchCommandError and the operator.
Settle(st, request, response) ==
  CASE request.command \in { "launch", "attach" } ->
         Defer(st, "startDebugging", << response >>, 1)
    [] request.command = "setBreakpoints" ->
         Defer(st, "syncBreakpointsForFilePath", << request, response >>, 1)
    [] request.command = "setExceptionBreakpoints" /\ request.owner[1] # "exc" ->
         Defer(st, "configDoneAfterFilters", << request.owner, response >>, 1)
    [] request.command = "configurationDone" ->
         Defer(st, "configDoneAfterConfiguration",
               << request.owner, response >>, 1)
    [] request.command = "stackTrace" ->
         Defer(st, "stackTrace", << request, response >>, 1)
    [] request.command = "scopes" ->
         Defer(st, "scopes", << request, response >>, 2)
    [] request.command = "initialize" -> st
    [] OTHER ->
         Defer(st, "emit",
               << << HandlerReturns(request, response) >>, SwitchedBy(request.owner) >>,
               IF request.command \in { "variables", "continueToLocation" }
               THEN 4 ELSE 3)

\* The failure of a request that the session cannot send or has given up.
Failure(request) ==
  IF request.command = "setBreakpoints"
  THEN [ success |-> FALSE, breakpoints |-> << >> ]
  ELSE FALSE

\* A request is written to the adapter and its callback registered.  Writes
\* reach the adapter in order, so what was sent last is what it holds last.
\* A disposed session sends nothing, and fails the request.
Send(st, request) ==
  LET sent == [ st EXCEPT !.pend = @ \cup { request } ]
  IN CASE st.disp /\ IsSessionRequest(request) ->
            Settle(st, request, Failure(request))
       [] request.command = "setExceptionBreakpoints" ->
            [ sent EXCEPT !.filters = Some(request.arguments.filters) ]
       [] request.command = "setBreakpoints" ->
            [ sent EXCEPT
                !.lines[request.arguments.source.path] =
                  Some(request.arguments.lines),
                !.startup.sent =
                  IF request.owner = StartupOwner
                  THEN Append(@, [ path |-> request.arguments.source.path,
                                   lines |-> request.arguments.lines ])
                  ELSE @ ]
       [] OTHER -> sent

\* Every pending promise of the session fails.
RECURSIVE FailAll(_, _)
FailAll(st, requests) ==
  IF requests = { } THEN st
  ELSE LET request == CHOOSE r \in requests : TRUE
       IN FailAll(Settle(st, request, Failure(request)),
                  requests \ { request })

\* this._disposables.dispose(): the subscriptions of the command router and
\* of the session's events end, and the session is disposed, which fails
\* its pending requests.  A second call does nothing.
disposeAll(st) ==
  IF st.disp THEN st
  ELSE FailAll([ st EXCEPT !.disp = TRUE,
                           !.pend = { r \in @ : ~IsSessionRequest(r) } ],
               { r \in st.pend : IsSessionRequest(r) })

terminateSessionWithError(st, errorMessage) ==
  disposeAll([ st EXCEPT !.notes =
                 Append(@, [ level |-> "error", message |-> errorMessage ]) ])

(***************************************************************************)
(* Startup, breakpoints and configuration.                                 *)
(***************************************************************************)
\* The tasks of a settled handler: the finished ones are garbage, the ones
\* still in flight run on with nobody awaiting them.
Detach(st, owner) ==
  [ st EXCEPT !.syncs =
      { IF t.owner = owner THEN [ t EXCEPT !.detached = TRUE ] ELSE t :
          t \in { u \in st.syncs : u.owner # owner \/ u.pc # "ok" } } ]

\* _configDone up to its first await.
configDone(st, owner) ==
  LET sent == Send(st, Request("setExceptionBreakpoints", owner,
                                [ filters |-> st.exceptionFilters ]))
  IN IF owner = StartupOwner THEN [ sent EXCEPT !.startup.pc = "exc" ] ELSE sent

\* _configDone has returned to the handler that awaited it: the startup
\* flatMap returns the results of the bulk sync, the restart handler nothing.
\* The flatMap emits the results one job after it has returned them.
configDoneReturned(st, owner) ==
  IF owner = StartupOwner
  THEN [ Emit(st, st.startup.results)
           EXCEPT !.startup.pc = "done", !.stage = "steady" ]
  ELSE st

\* _configDone after its last await.
configDoneSet(st, owner) ==
  Defer([ st EXCEPT !.cds = TRUE ], "configDoneReturned", << owner >>, 2)

\* _configDone after setExceptionBreakpoints has settled.
configDoneAfterFilters(st, owner, success) ==
  IF ~success THEN Defer(st, "HandlerThrew", << owner, "AdapterError" >>, 2)
  ELSE IF capabilities.supportsConfigurationDoneRequest
  THEN LET sent == Send(st, Request("configurationDone", owner, << >>))
       IN IF owner = StartupOwner
          THEN [ sent EXCEPT !.startup.pc = "cfg" ] ELSE sent
  ELSE configDoneSet(st, owner)

\* _configDone after configurationDone has settled.
configDoneAfterConfiguration(st, owner, success) ==
  IF success THEN configDoneSet(st, owner)
  ELSE Defer(st, "HandlerThrew", << owner, "AdapterError" >>, 2)

\* A handler's promise has rejected with message, and the rejection has
\* reached the catch of its pipeline: the startup flatMap and the handler of
\* a command answer with errors, the restart subscription ends the session
\* unless a later initialized event has taken the handler's place.
HandlerThrew(st, owner, message) ==
  CASE owner[1] = "startup" ->
         [ Emit(st, Map(st.startup.commands,
                        LAMBDA c : getErrorResponse(c.id, message)))
           EXCEPT !.startup.pc = "failed", !.stage = "steady" ]
    [] owner[1] = "restart" ->
         IF st.switchLatest.initialized = owner[2] /\ ~st.disp
         THEN terminateSessionWithError(st, "Unable to sync session")
         ELSE st
    [] OTHER -> Emit(st, << getErrorResponse(owner[2], message) >>)

\* The task of a handler for a file, at a given point.
SyncAt(st, owner, path, pc) ==
  CHOOSE t \in st.syncs : t.owner = owner /\ t.path = path /\ t.pc = pc

\* The promise of a handler's task has rejected: the Promise.all over the
\* tasks rejects with the first rejection, the handler with it, and the
\* other tasks run on unawaited.  The rejection passes Promise.all and the
\* handler (and _setBulkBreakpoints, where the task is its mapper) before
\* it is caught.
SyncRejected(st, t, message) ==
  LET rest == [ st EXCEPT !.syncs = @ \ { t } ]
  IN IF t.detached THEN rest
     ELSE Defer(Detach(rest, t.owner), "HandlerThrew",
                << t.owner, message >>,
                IF t.owner[1] = "restart" THEN 3 ELSE 4)

\* _syncBreakpointsForFilePath after its await: the response is applied to
\* the records the task holds, or the task throws.
syncBreakpointsForFilePath(st, request, response) ==
  LET owner == request.owner
      path == request.arguments.source.path
      t == SyncAt(st, owner, path, "request")
      vsBreakpoints == response.breakpoints
      applied == ApplyVsBreakpoints(st.ledger, st.lastId, t.items,
                                    vsBreakpoints, 1)
      synced == [ st EXCEPT !.ledger = applied.ledger,
                            !.lastId = applied.lastId ]
      message == IF ~response.success THEN "AdapterError"
                 ELSE CountMismatch(Len(vsBreakpoints), Len(t.items))
      mapper == owner[1] \in { "startup", "set" }
      At(s, pc) == [ s EXCEPT !.syncs = (@ \ { t }) \cup
                                          { [ t EXCEPT !.pc = pc ] } ]
      rest == [ synced EXCEPT !.syncs = @ \ { t } ]
  IN IF ~response.success \/ Len(vsBreakpoints) # Len(t.items)
     THEN IF mapper
          THEN Defer(At(st, "thrown"), "mapperRejected",
                     << owner, path, message >>, 1)
          ELSE SyncRejected(st, t, message)
     ELSE IF mapper
     THEN Defer(At(synced, "applied"), "mapped", << owner, path >>, 1)
     ELSE IF t.detached THEN rest
     ELSE IF owner[1] = "remove"
     THEN Defer(rest, "emit",
                << << getEmptyResponse(owner[2]) >>, << >> >>, 4)
     ELSE IF \A u \in rest.syncs : u.owner # owner
     THEN Defer(rest, "configDone", << owner >>, 2)
     ELSE rest

\* The mapper of _setBulkBreakpoints after its last await: the results of
\* the file's commands are read from the records the task holds.  With the
\* last mapper Promise.all resolves, and _setBulkBreakpoints returns.
mapped(st, owner, path) ==
  LET t == SyncAt(st, owner, path, "applied")
      result == [ i \in 1 .. Len(t.commands) |->
                    SetBreakpointResult(st.ledger, t.items[i], t.commands[i]) ]
      done == [ st EXCEPT !.syncs = (@ \ { t }) \cup
                            { [ t EXCEPT !.pc = "ok", !.result = result ] } ]
  IN IF t.detached THEN [ st EXCEPT !.syncs = @ \ { t } ]
     ELSE IF \A u \in done.syncs : u.owner = owner => u.pc = "ok"
     THEN Defer(done, "SyncsResolved", << owner >>,
                IF owner[1] = "startup" THEN 3 ELSE 4)
     ELSE done

\* _setBulkBreakpoints has returned.  The startup flatMap, which awaited
\* it, goes on to _configDone; the handler of a single command returns the
\* results, and its flatMap emits them.
SyncsResolved(st, owner) ==
  LET mine == { t \in st.syncs : t.owner = owner }
      rest == [ st EXCEPT !.syncs = @ \ mine ]
      ResultFor(url) == (CHOOSE t \in mine : t.path = url).result
  IN IF owner[1] = "startup"
     THEN configDone([ rest EXCEPT !.startup.results =
                         Flatten(Map(UrlsOf(st.startup.commands), ResultFor)) ],
                     owner)
     ELSE Emit(rest, (CHOOSE t \in mine : TRUE).result)

\* FileCache.registerFile has settled for the mapper of a file:
\* _syncBreakpointsForFilePath sends the file's request, or the mapper
\* throws.
registered(st, owner, path, success) ==
  LET t == SyncAt(st, owner, path, "registered")
  IN IF success
     THEN Send([ st EXCEPT !.syncs = (@ \ { t }) \cup
                             { [ t EXCEPT !.pc = "request" ] } ],
               Request("setBreakpoints", owner,
                       SetBreakpointsArgs(st.ledger, path, t.items)))
     ELSE SyncRejected(st, t, "FileError")

\* _setBulkBreakpoints up to its awaits, for the urls still to start.
RECURSIVE StartGroups(_, _, _, _)
StartGroups(st, owner, commands, urls) ==
  IF urls = << >> THEN st
  ELSE LET url == Head(urls)
           mine == CommandsFor(commands, url)
           g == GroupItems(st.ledger, st.uid, url, mine)
       IN StartGroups(
            [ st EXCEPT !.ledger = @ \o g.news,
                        !.uid = @ + Len(g.news),
                        !.syncs = @ \cup
                          { SyncTask(owner, url, g.items, mine, "register") } ],
            owner, commands, Tail(urls))

\* VsDebugSession.isReadyForBreakpoints: an initialized event has been seen,
\* the one being handled included.
isReadyForBreakpoints(st) == st.ready

\* _setBulkBreakpoints up to its awaits.  It throws when the session is not
\* ready, and returns at once when it has no commands.
setBulkBreakpoints(st, owner, commands) ==
  IF ~isReadyForBreakpoints(st)
  THEN Defer(st, "HandlerThrew",
             << owner, "VsDebugSession is not ready for breakpoints" >>, 2)
  ELSE IF commands = << >>
  THEN Defer(st, "SyncsResolved", << owner >>, 1)
  ELSE StartGroups(st, owner, commands, UrlsOf(commands))

\* A startup that goes on to _configDone without awaiting the bulk sync.
StartupFlushWithoutAwait(st) ==
  configDone(StartGroups(
               [ st EXCEPT !.stage = "closed",
                           !.startup = [ @ EXCEPT !.pc = "bulk",
                                                  !.commands = st.buffered ] ],
               StartupOwner, st.buffered, UrlsOf(st.buffered)),
             StartupOwner)

\* The buffer closes: the startup flatMap runs on the buffered commands.
StartupFlush(st) ==
  setBulkBreakpoints(
    [ st EXCEPT !.stage = "closed",
                !.startup = [ @ EXCEPT !.pc = "bulk",
                                       !.commands = st.buffered ] ],
    StartupOwner, st.buffered)

\* A failed launch that is reported and does not end the session.
startDebuggingGoesOn(st, success) ==
  Defer(IF success THEN st
        ELSE [ st EXCEPT !.notes =
                 Append(@, [ level |-> "error",
                             message |-> "Failed to " \o debugMode \o
                                         " the debugger!" ]) ],
        "bufferNotifier", << >>, 1)

\* _startDebugging after its await: a failed launch or attach ends the
\* session, and either way the function returns to the buffer's notifier.
startDebugging(st, success) ==
  Defer(IF success THEN st
        ELSE terminateSessionWithError(
               st, "Failed to " \o debugMode \o " the debugger!"),
        "bufferNotifier", << >>, 1)

\* The buffer's notifier after _startDebugging: it returns when the session
\* is ready for breakpoints, and waits for the first initialized event
\* otherwise.  The buffer closes one job after the notifier has returned.
bufferNotifier(st) ==
  IF isReadyForBreakpoints(st)
  THEN Defer([ st EXCEPT !.startup.pc = "closing" ], "StartupFlush", << >>, 1)
  ELSE [ st EXCEPT !.startup.pc = "waitInit" ]

\* _syncBreakpoints: one request per file of the ledger, each on copies.
RECURSIVE SyncFiles(_, _, _)
SyncFiles(st, owner, paths) ==
  IF paths = << >> THEN st
  ELSE LET path == Head(paths)
           items == Map(getBreakpointsForFilePath(st.ledger, path), CopyItem)
       IN SyncFiles(
            Send([ st EXCEPT !.syncs = @ \cup
                     { SyncTask(owner, path, items, << >>, "request") } ],
                 Request("setBreakpoints", owner,
                         SetBreakpointsArgs(st.ledger, path, items))),
            owner, Tail(paths))

\* A re-sync of the first file of the ledger only.
syncBreakpointsFirstFile(st, owner) ==
  LET filePaths == Distinct(Map(st.ledger, LAMBDA bp : bp.path))
  IN IF filePaths = << >>
     THEN Defer(st, "configDone", << owner >>, 1)
     ELSE SyncFiles(st, owner, << Head(filePaths) >>)

\* The restart handler up to its first await: _syncBreakpoints sends the
\* requests of every file; without files its Promise.all is resolved, and
\* the handler goes on to _configDone in the next job.
syncBreakpoints(st, owner) ==
  LET filePaths == Distinct(Map(st.ledger, LAMBDA bp : bp.path))
  IN IF filePaths = << >>
     THEN Defer(st, "configDone", << owner >>, 1)
     ELSE SyncFiles(st, owner, filePaths)

(***************************************************************************)
(* The adapter, as far as the translator can see it: it answers a pending  *)
(* request, in any order, with success or failure.  A setBreakpoints       *)
(* response lists one breakpoint per requested line or, wrongly, one less; *)
(* each breakpoint may carry an id (this adapter numbers breakpoints by    *)
(* their location) and is verified where it was asked for.                 *)
(***************************************************************************)
\* The sessions the model starts from: a launch with an adapter that takes
\* configurationDone, an attach with one that does not.
Configurations ==
  { [ debugMode |-> "launch", adapterType |-> "python",
      capabilities |-> [ supportsConfigurationDoneRequest |-> TRUE,
                         supportsDelayedStackTraceLoading |-> TRUE,
                         supportsCompletionsRequest |-> TRUE ] ],
    [ debugMode |-> "attach", adapterType |-> "node",
      capabilities |-> [ supportsConfigurationDoneRequest |-> FALSE,
                         supportsDelayedStackTraceLoading |-> FALSE,
                         supportsCompletionsRequest |-> FALSE ] ] }

PathIndex(path) == IF path = "a" THEN 0 ELSE 1

AdapterId(path, line) == PathIndex(path) * (MaxLine + 3) + line

VsBreakpointsFor(path, line) ==
  { [ id |-> id, verified |-> TRUE, line |-> None ] :
      id \in { None, Some(AdapterId(path, line)) } }

RECURSIVE ResponseBodies(_, _)
ResponseBodies(path, lines) ==
  IF lines = << >> THEN { << >> }
  ELSE { << vs >> \o rest : vs \in VsBreakpointsFor(path, Head(lines)),
                            rest \in ResponseBodies(path, Tail(lines)) }

SetBreakpointsResponses(arguments) ==
  LET right == ResponseBodies(arguments.source.path, arguments.lines)
      short == IF arguments.lines = << >> THEN { }
               ELSE { SubSeq(b, 1, Len(b) - 1) :
                        b \in { CHOOSE r \in right : TRUE } }
  IN { [ success |-> TRUE, breakpoints |-> b ] : b \in right \cup short }
     \cup { [ success |-> FALSE, breakpoints |-> << >> ] }

\* An adapter that may leave a breakpoint unverified and may move it: every
\* moved breakpoint lands on MovedLine, below the lines the client asks for.
MovedLine == MaxLine + 2

VsBreakpointsMovedFor(path, line) ==
  { [ id |-> Some(AdapterId(path, line)), verified |-> verified, line |-> l ] :
      verified \in BOOLEAN, l \in { None, Some(MovedLine) } }

RECURSIVE ResponseBodiesMoved(_, _)
ResponseBodiesMoved(path, lines) ==
  IF lines = << >> THEN { << >> }
  ELSE { << vs >> \o rest : vs \in VsBreakpointsMovedFor(path, Head(lines)),
                            rest \in ResponseBodiesMoved(path, Tail(lines)) }

SetBreakpointsResponsesMoved(arguments) ==
  { [ success |-> TRUE, breakpoints |-> b ] :
      b \in ResponseBodiesMoved(arguments.source.path, arguments.lines) }
  \cup { [ success |-> FALSE, breakpoints |-> << >> ] }

\* An adapter that numbers every breakpoint: the one response of the right
\* length, the one that is a breakpoint short, and the failure.
SetBreakpointsResponsesNumbered(arguments) ==
  LET right == [ i \in 1 .. Len(arguments.lines) |->
                   [ id |-> Some(AdapterId(arguments.source.path,
                                           arguments.lines[i])),
                     verified |-> TRUE, line |-> None ] ]
  IN { [ success |-> TRUE, breakpoints |-> right ],
       [ success |-> TRUE,
         breakpoints |-> SubSeq(right, 1, Len(right) - 1) ],
       [ success |-> FALSE, breakpoints |-> << >> ] }

(***************************************************************************)
(* The thread map: a JavaScript Map, kept as its entries in insertion      *)
(* order.  Its values are objects: an entry holds the object's fields      *)
(* (info) and its identity (ref), a number that tells it from every other  *)
(* ThreadInfo the map or a handler holds, whatever their fields.           *)
(***************************************************************************)
VSP_PROCESS_ID == -1

ThreadInfo(state, callFrames, stopReason, callStackLoaded) ==
  [ state |-> state, callFrames |-> callFrames, stopReason |-> stopReason,
    callStackLoaded |-> callStackLoaded ]

MapHas(map, id) == \E i \in 1 .. Len(map) : map[i].id = id

MapGet(map, id) == map[CHOOSE i \in 1 .. Len(map) : map[i].id = id].info

\* The handler a queued continuation belongs to, where it is part of a
\* stack fetch.
FetchOwner(task) ==
  CASE task.run \in { "stackTrace", "frameRegistered", "scopes" } ->
         task.a[1].owner
    [] task.run = "FetchReturned" -> task.a[1]
    [] OTHER -> << "none" >>

\* The ThreadInfo objects that the handlers of Debugger.getThreadStack read
\* from the map and hold across their await.
HeldThreadInfos(st) ==
  { r.owner[3] : r \in { q \in st.pend : q.owner[1] = "stack" } } \cup
  { f.owner[3] : f \in { g \in st.fetches : g.owner[1] = "stack" } } \cup
  { FetchOwner(st.micro[k])[3] :
      k \in { j \in 1 .. Len(st.micro) :
                FetchOwner(st.micro[j])[1] = "stack" } }

\* Map.set with an object literal: the value is a new object, held names the
\* objects that handlers hold.  The object it replaces is garbage unless a
\* handler holds it, and the number of a garbage object is free again.
MapSet(map, id, info, held) ==
  LET taken == held \cup { map[i].ref :
                             i \in { j \in 1 .. Len(map) : map[j].id # id } }
      ref == CHOOSE n \in 1 .. Cardinality(taken) + 1 :
               n \notin taken /\ \A m \in 1 .. n - 1 : m \in taken
      entry == [ id |-> id, info |-> info, ref |-> ref ]
  IN IF MapHas(map, id)
     THEN [ i \in 1 .. Len(map) |-> IF map[i].id = id THEN entry ELSE map[i] ]
     ELSE Append(map, entry)

MapDelete(map, id) == SelectSeq(map, LAMBDA e : e.id # id)

MapKeys(map) == Map(map, LAMBDA e : e.id)

updatePausedThreadId(st, newPausedThreadId) ==
  [ st EXCEPT !.prev = IF st.ptid # None THEN st.ptid ELSE @,
              !.ptid = newPausedThreadId,
              !.act = @ \cup Range(newPausedThreadId) ]

RECURSIVE updateThreadsState(_, _, _)
updateThreadsState(st, threadIds, state) ==
  IF threadIds = << >> THEN st
  ELSE LET threadId == Head(threadIds)
           info == IF ~MapHas(st.threads, threadId) \/ state = "running"
                   THEN ThreadInfo(state, None, Null, FALSE)
                   ELSE [ MapGet(st.threads, threadId) EXCEPT !.state = state ]
       IN updateThreadsState(
            [ st EXCEPT !.threads = MapSet(@, threadId, info,
                                           HeldThreadInfos(st)) ],
            Tail(threadIds), state)

getThreadsUpdatedEvent(threads) ==
  [ owningProcessId |-> VSP_PROCESS_ID,
    threads |-> Map(threads, LAMBDA e :
      LET callFrames == e.info.callFrames
          none == callFrames = None \/ callFrames[1] = << >>
      IN [ id |-> e.id,
           name |-> << "Thread", e.id >>,
           address |-> IF none THEN "" ELSE callFrames[1][1].functionName,
           location |-> IF none THEN nuclideDebuggerLocation("N/A", 0, 0)
                        ELSE callFrames[1][1].location,
           stopReason |-> IF e.info.stopReason = Null THEN "running"
                          ELSE e.info.stopReason,
           hasSource |-> IF none THEN FALSE ELSE callFrames[1][1].hasSource ]) ]

(***************************************************************************)
(* Stack traces.  The adapter's stack of thread 1 has two frames, the      *)
(* second without a source; the stack of any other thread has one frame;   *)
(* every frame has one scope.  After the                                   *)
(* stackTrace response _getTranslatedCallFramesForThread awaits, for each   *)
(* frame, the registration of the frame's file and then the frame's        *)
(* scopes; a fetch under way is kept in fetches with the frames translated *)
(* so far.                                                                 *)
(***************************************************************************)
StackOf(threadId) ==
  << [ id |-> 10 * threadId + 1, name |-> "inner", line |-> 2, column |-> 1,
       source |-> Some([ path |-> "a" ]) ] >> \o
  IF threadId = 1
  THEN << [ id |-> 10 * threadId + 2, name |-> "outer", line |-> 1,
            column |-> 1, source |-> None ] >>
  ELSE << >>

ScopesOf(frameId) == << [ name |-> "Locals", variablesReference |-> 7 ] >>

\* _getScopesForFrame after its await: the adapter's scopes, or none when
\* the request has failed.
TranslatedScopes(frameId, success) ==
  IF success
  THEN Map(ScopesOf(frameId), LAMBDA scope :
         [ type |-> scope.name, name |-> scope.name,
           object |-> [ type |-> "object", description |-> scope.name,
                        objectId |-> ToStr(scope.variablesReference) ] ])
  ELSE << >>

ScriptIdOf(frame) ==
  IF frame.source # None THEN frame.source[1].path ELSE "N/A"

TranslateFrame(frame, scopeChain) ==
  [ callFrameId |-> ToStr(frame.id),
    functionName |-> frame.name,
    location |-> nuclideDebuggerLocation(ScriptIdOf(frame),
                                         frame.line - 1, frame.column - 1),
    hasSource |-> frame.source # None,
    scopeChain |-> scopeChain ]

\* _getTranslatedCallFramesForThread up to its await.
getTranslatedCallFramesForThread(st, owner, threadId, levels) ==
  Send(st, Request("stackTrace", owner,
         [ threadId |-> threadId,
           levels |-> IF levels # None /\
                         capabilities.supportsDelayedStackTraceLoading
                      THEN levels ELSE None ]))

\* The stack frames of the adapter's answer to a stackTrace request.
StackFramesOf(arguments) ==
  LET stack == StackOf(arguments.threadId)
  IN IF arguments.levels = None THEN stack
     ELSE SubSeq(stack, 1, arguments.levels[1])

\* ... after the stackTrace response: the async function of every frame
\* runs up to the registration of the frame's file.
StartFrames(st, owner, threadId, stackFrames) ==
  [ st EXCEPT
      !.pend = @ \cup
        { Request("registerFile", owner,
                  [ frameId |-> stackFrames[k].id,
                    scriptId |-> ScriptIdOf(stackFrames[k]) ]) :
            k \in 1 .. Len(stackFrames) },
      !.fetches = @ \cup
        { [ owner |-> owner, threadId |-> threadId,
            stackFrames |-> stackFrames,
            frames |-> [ k \in 1 .. Len(stackFrames) |-> None ] ] } ]

\* The fetch a registration or a scopes request belongs to, while the
\* Promise.all of its frames is unsettled.
FetchesOf(st, owner) == { f \in st.fetches : f.owner = owner }

(***************************************************************************)
(* Adapter events.  A stopped event is kept in stops with the paused       *)
(* events its fetches have produced so far, its status (fetching, done,    *)
(* cancelled by takeUntil) and the continued events seen while fetching.   *)
(***************************************************************************)
StopThreadIds == { None } \cup { Some(t) : t \in ThreadIds }
ContinuedThreadIds == { None, Some(-1) } \cup { Some(t) : t \in ThreadIds }
StopReasons == { "user request" }

\* A Debugger.paused message; stop names the stopped event it answers.
PausedMessage(pausedEvent, n) ==
  [ method |-> "Debugger.paused", params |-> pausedEvent, stop |-> n ]

RECURSIVE MarkPaused(_, _, _, _)
MarkPaused(threads, pausedEvents, active, held) ==
  IF pausedEvents = << >> THEN threads
  ELSE LET pausedEvent == Head(pausedEvents)
           stopThreadId == pausedEvent.stopThreadId
       IN MarkPaused(
            IF stopThreadId >= 0
            THEN MapSet(threads, stopThreadId,
                        ThreadInfo("paused", Some(pausedEvent.callFrames),
                                   pausedEvent.reason,
                                   active = Some(stopThreadId)),
                        held)
            ELSE threads,
            Tail(pausedEvents), active, held)

\* A subscriber that reports every paused event of the stop to the client.
StopSubscriberPausedForEach(st, n) ==
  LET pausedEvents == Map(st.stops[n].paused, LAMBDA p : p[1])
      marked == [ st EXCEPT !.threads = MarkPaused(@, pausedEvents, st.ptid,
                                                   HeldThreadInfos(st)),
                            !.stops[n].status = "done" ]
  IN sendMessageToClient(marked,
       Map(pausedEvents, LAMBDA pausedEvent : PausedMessage(pausedEvent, n)) \o
       << [ method |-> "Debugger.threadsUpdated",
            params |-> getThreadsUpdatedEvent(marked.threads) ] >>)

\* The subscriber of the stop events, called with the paused events of stop n.
StopSubscriber(st, n) ==
  LET pausedEvents == Map(st.stops[n].paused, LAMBDA p : p[1])
      marked == [ st EXCEPT !.threads = MarkPaused(@, pausedEvents, st.ptid,
                                                   HeldThreadInfos(st)),
                            !.stops[n].status = "done" ]
      pausedEvent ==
        IF pausedEvents = << >>
        THEN Some([ callFrames |-> << >>, reason |-> "Async-Break",
                    stopThreadId |-> -1, threadSwitchMessage |-> None ])
        ELSE IF st.ptid = Some(pausedEvents[1].stopThreadId)
        THEN Some(pausedEvents[1])
        ELSE None
      threadsUpdatedEvent ==
        [ owningProcessId |-> VSP_PROCESS_ID,
          threads |-> getThreadsUpdatedEvent(marked.threads).threads,
          stopThreadId |-> IF st.ptid # None THEN st.ptid[1] ELSE -1 ]
  IN sendMessageToClient(marked,
       (IF pausedEvent # None THEN << PausedMessage(pausedEvent[1], n) >>
        ELSE << >>) \o
       << [ method |-> "Debugger.threadsUpdated",
            params |-> threadsUpdatedEvent ] >>)

RECURSIVE StartFetches(_, _, _, _, _)
StartFetches(st, n, stoppedThreadIds, levels, i) ==
  IF i > Len(stoppedThreadIds) THEN st
  ELSE StartFetches(
         getTranslatedCallFramesForThread(st, << "stop", n, i >>,
                                          stoppedThreadIds[i], levels),
         n, stoppedThreadIds, levels, i + 1)


\* The fetch of a stop's thread has returned callFrames: its paused event
\* is built with the active thread of this moment.  With the last of the
\* stop's paused events their Promise.all resolves, and the subscriber is
\* called two jobs later.
StopFetchReturned(st, n, i, callFrames) ==
  LET threadSwitchMessage ==
        IF /\ st.prev # None
           /\ st.ptid # None
           /\ st.prev # st.ptid
        THEN Some(<< st.prev[1], st.ptid[1] >>)
        ELSE None
      pausedEvent ==
        [ callFrames |-> callFrames,
          reason |-> st.stops[n].reason,
          stopThreadId |-> st.stops[n].ids[i],
          threadSwitchMessage |-> threadSwitchMessage ]
      noted == [ st EXCEPT !.stops[n].paused[i] = Some(pausedEvent) ]
  IN IF st.stops[n].status # "fetching" THEN st
     ELSE IF \A j \in 1 .. Len(st.stops[n].ids) : noted.stops[n].paused[j] # None
     THEN Defer(noted, "stopObserved", << n >>, 2)
     ELSE noted

\* The promise of a stop's paused events has been passed to the subscriber
\* of the stop events, unless takeUntil has ended the stop or the
\* subscriptions have been disposed.
stopObserved(st, n) ==
  IF st.disp \/ st.stops[n].status # "fetching" THEN st
  ELSE StopSubscriber(st, n)

\* The fetch of Debugger.getThreadStack has returned callFrames: they are
\* written to the ThreadInfo object the handler read, and the handler
\* returns its answer, which the flatMap emits in the next job.  The map
\* shows the frames only while it still holds that very object: a
\* ThreadInfo set for the thread in the meantime is another object, equal
\* fields or not.
ThreadStackReturned(st, owner, threadId, callFrames) ==
  LET threadInfo == owner[3]
      stored ==
        IF \A i \in 1 .. Len(st.threads) : st.threads[i].ref # threadInfo
        THEN st
        ELSE [ st EXCEPT !.threads =
                 [ i \in 1 .. Len(st.threads) |->
                     IF st.threads[i].ref = threadInfo
                     THEN [ st.threads[i] EXCEPT
                              !.info.callFrames = Some(callFrames) ]
                     ELSE st.threads[i] ] ]
  IN Defer(stored, "emit",
           << << [ id |-> owner[2],
                   result |-> [ callFrames |-> callFrames ] ] >>, << >> >>, 1)

\* _getTranslatedCallFramesForThread has returned to the function that
\* awaited it.
FetchReturned(st, owner, threadId, callFrames) ==
  IF owner[1] = "stop"
  THEN StopFetchReturned(st, owner[2], owner[3], callFrames)
  ELSE ThreadStackReturned(st, owner, threadId, callFrames)

\* The merged command stream ends in an error: the subscriber of the
\* command router is gone.
routerError(st) == IF st.disp THEN st ELSE [ st EXCEPT !.dead = TRUE ]

\* The promise of a frame has rejected, and with it the Promise.all of the
\* stack.  It is returned, not awaited, inside the try of
\* _getTranslatedCallFramesForThread, so the rejection leaves the function:
\* the stop's fetch catches it and goes on without frames, the handler of
\* Debugger.getThreadStack does not, and the error ends the subscription of
\* the command router.
FetchRejected(st, owner, threadId) ==
  IF owner[1] = "stop"
  THEN Defer(st, "FetchReturned", << owner, threadId, << >> >>, 3)
  ELSE Defer(st, "routerError", << >>, 4)

\* _getTranslatedCallFramesForThread after stackTrace has settled.  A
\* failure is caught and gives no frames; else the async function of every
\* frame runs up to the registration of the frame's file.
stackTraceSettled(st, request, success) ==
  LET stackFrames == StackFramesOf(request.arguments)
      threadId == request.arguments.threadId
  IN IF ~success
     THEN Defer(st, "FetchReturned", << request.owner, threadId, << >> >>, 1)
     ELSE IF stackFrames = << >>
     THEN Defer(st, "FetchReturned", << request.owner, threadId, << >> >>, 3)
     ELSE StartFrames(st, request.owner, threadId, stackFrames)

\* The async function of a frame after the registration of the frame's
\* file: the frame's scopes are asked for, or the frame's promise rejects.
frameRegistered(st, request, success) ==
  LET mine == FetchesOf(st, request.owner)
      threadId == (CHOOSE f \in mine : TRUE).threadId
  IN IF success
     THEN Send(st, Request("scopes", request.owner,
                           [ frameId |-> request.arguments.frameId ]))
     ELSE IF mine = { } THEN st
     ELSE FetchRejected([ st EXCEPT !.fetches = @ \ mine ],
                        request.owner, threadId)

\* The async function of a frame after _getScopesForFrame: the frame is
\* translated, and with the last frame of the stack the Promise.all of the
\* frames resolves and _getTranslatedCallFramesForThread returns.
scopesSettled(st, request, success) ==
  LET mine == FetchesOf(st, request.owner)
      fetch == CHOOSE f \in mine : TRUE
      k == CHOOSE k \in 1 .. Len(fetch.stackFrames) :
             fetch.stackFrames[k].id = request.arguments.frameId
      frames == [ fetch.frames EXCEPT ![k] =
                    Some(TranslateFrame(fetch.stackFrames[k],
                           TranslatedScopes(fetch.stackFrames[k].id,
                                            success))) ]
  IN IF mine = { } THEN st
     ELSE IF \A j \in 1 .. Len(frames) : frames[j] # None
     THEN Defer([ st EXCEPT !.fetches = @ \ mine ], "FetchReturned",
                << request.owner, fetch.threadId,
                   Map(frames, LAMBDA frame : frame[1]) >>, 3)
     ELSE [ st EXCEPT !.fetches =
              (@ \ mine) \cup { [ fetch EXCEPT !.frames = frames ] } ]

\* The arguments of nuclide_continueToLocation for a client location:
\* columnNumber || 1 and lineNumber + 1.
ContinueToLocationArgs(location) ==
  [ column |-> IF location.columnNumber = None \/ location.columnNumber[1] = 0
               THEN 1 ELSE location.columnNumber[1],
    line |-> location.lineNumber + 1,
    source |-> [ path |-> location.scriptId ],
    threadId |-> location.threadId ]

\* _continueToLocation after the registration of the file: it sends its
\* request, or throws.
locationRegistered(st, request, success) ==
  IF success
  THEN Send(st, Request("continueToLocation", request.owner,
                        ContinueToLocationArgs(request.arguments)))
  ELSE Defer(st, "emit",
             << << getErrorResponse(request.owner[2], "FileError") >>,
                SwitchedBy(request.owner) >>, 3)

(***************************************************************************)
(* The job queue.                                                          *)
(***************************************************************************)
\* The continuation of a task.  An answer that has to pass a switchMap is
\* emitted only while its command is the operator's latest.
Resume(st, task) ==
  LET a == task.a
  IN CASE task.run = "emit" ->
            IF a[2] # << >> /\ st.switchLatest[a[2][1]].id # a[2][2]
            THEN st ELSE Emit(st, a[1])
       [] task.run = "startDebugging" -> startDebugging(st, a[1])
       [] task.run = "bufferNotifier" -> bufferNotifier(st)
       [] task.run = "StartupFlush" ->
            IF st.disp \/ st.dead THEN st ELSE StartupFlush(st)
       [] task.run = "registered" -> registered(st, a[1], a[2], a[3])
       [] task.run = "syncBreakpointsForFilePath" ->
            syncBreakpointsForFilePath(st, a[1], a[2])
       [] task.run = "mapperRejected" ->
            SyncRejected(st, SyncAt(st, a[1], a[2], "thrown"), a[3])
       [] task.run = "mapped" -> mapped(st, a[1], a[2])
       [] task.run = "SyncsResolved" -> SyncsResolved(st, a[1])
       [] task.run = "configDone" -> configDone(st, a[1])
       [] task.run = "configDoneAfterFilters" ->
            configDoneAfterFilters(st, a[1], a[2])
       [] task.run = "configDoneAfterConfiguration" ->
            configDoneAfterConfiguration(st, a[1], a[2])
       [] task.run = "configDoneReturned" -> configDoneReturned(st, a[1])
       [] task.run = "HandlerThrew" -> HandlerThrew(st, a[1], a[2])
       [] task.run = "stackTrace" -> stackTraceSettled(st, a[1], a[2])
       [] task.run = "frameRegistered" -> frameRegistered(st, a[1], a[2])
       [] task.run = "scopes" -> scopesSettled(st, a[1], a[2])
       [] task.run = "FetchReturned" -> FetchReturned(st, a[1], a[2], a[3])
       [] task.run = "stopObserved" -> stopObserved(st, a[1])
       [] task.run = "routerError" -> routerError(st)
       [] task.run = "locationRegistered" ->
            locationRegistered(st, a[1], a[2])

\* The queue with the jobs that only pass a value on taken from its head:
\* each of them runs, and queues the next job of its task.
RECURSIVE Rotate(_)
Rotate(queue) ==
  IF Head(queue).ticks <= 1 THEN queue
  ELSE Rotate(Append(Tail(queue), [ Head(queue) EXCEPT !.ticks = @ - 1 ]))

\* The jobs run one after the other, those they queue included, until the
\* queue is empty.
RECURSIVE Drain(_)
Drain(st) ==
  IF st.micro = << >> THEN st
  ELSE LET queue == Rotate(st.micro)
       IN Drain(Resume([ st EXCEPT !.micro = Tail(queue) ], Head(queue)))

\* A callback returns.  Either the turn ends with it, and the jobs run
\* before anything else does; or another callback follows in the same turn
\* (the next message of the chunk, the next command of the client), which
\* finds the jobs queued and the state as this callback leaves it.
Become(source, st) ==
  \E more \in BOOLEAN :
    /\ turn \in { Null, source }
    /\ more => /\ st.micro # << >>
               /\ Len(st.micro) < MaxMicrotasks
               /\ turn = source \/ turnsToShare > 0
    /\ Install(IF more THEN st ELSE Drain(st))
    /\ turn' = IF more THEN source ELSE Null
    /\ turnsToShare' = IF more /\ turn = Null
                       THEN turnsToShare - 1 ELSE turnsToShare

\* The last callback of a turn has returned: the jobs run.
RunMicrotasks ==
  /\ microtasks # << >>
  /\ Install(Drain(Now))
  /\ turn' = Null
  /\ UNCHANGED << eventCount, sessionVars, resumeCount, nextId, turnsToShare >>

(***************************************************************************)
(* Client commands (processCommand), each up to its first await.  A        *)
(* handler that returns without an await has its answer emitted after the  *)
(* jobs that pass it through catchCommandError and the operator.  Once the *)
(* subscription of _handleCommands has ended in an error no handler hears  *)
(* a command: the command changes nothing.                                 *)
(***************************************************************************)
CanCommand == ~disposed /\ nextId <= MaxCommands

\* Debugger.enable: acknowledged, followed by the fake pause.
CmdEnable ==
  /\ CanCommand
  /\ nextId' = nextId + 1
  /\ Become("client", IF routerErrored THEN Now
            ELSE sendMessageToClient(Now, << getEmptyResponse(nextId),
                                             getFakeLoaderPauseEvent >>))
  /\ UNCHANGED << eventCount, sessionVars, resumeCount >>

\* Debugger.setBreakpointByUrl: buffered until the buffer closes, unheard
\* while the startup flatMap runs, handled one by one afterwards.
CmdSetBreakpointByUrl(url, lineNumber) ==
  LET command == Command(nextId, "Debugger.setBreakpointByUrl",
                         [ url |-> url, lineNumber |-> lineNumber,
                           condition |-> Null ])
  IN /\ CanCommand
     /\ nextId' = nextId + 1
     /\ CASE routerErrored -> Become("client", Now)
          [] bpStage = "buffer" ->
               Become("client", [ Now EXCEPT !.buffered = Append(@, command) ])
          [] bpStage = "closed" -> Become("client", Now)
          [] OTHER ->
               Become("client", setBulkBreakpoints(Now, CommandOwner("set", nextId),
                                         << command >>))
     /\ UNCHANGED << eventCount, sessionVars, resumeCount >>

\* The first Debugger.resume.  The buffer's notifier, subscribed first, runs
\* _startDebugging up to its await; resumeCommands.take(1) then acknowledges
\* the command.
CmdFirstResume ==
  /\ CanCommand
  /\ resumeCount = 0
  /\ nextId' = nextId + 1
  /\ resumeCount' = IF routerErrored THEN resumeCount ELSE resumeCount + 1
  /\ Become("client", IF routerErrored THEN Now
            ELSE sendMessageToClient(
                   [ Send(Now, Request(debugMode, StartupOwner, << >>))
                       EXCEPT !.startup.pc = "launching",
                              !.startup.resume = nextId ],
                   << getEmptyResponse(nextId) >>))
  /\ UNCHANGED << eventCount, sessionVars >>

\* A later Debugger.resume (resumeCommands.skip(1)) continues the target.
CmdResume ==
  /\ CanCommand
  /\ resumeCount > 0
  /\ nextId' = nextId + 1
  /\ resumeCount' = IF routerErrored THEN resumeCount ELSE resumeCount + 1
  /\ Become("client", IF routerErrored THEN Now
            ELSE Send(Now, Request("continue", CommandOwner("resume", nextId),
                        [ threadId |-> IF pausedThreadId # None
                                       THEN pausedThreadId[1] ELSE -1 ])))
  /\ UNCHANGED << eventCount, sessionVars >>

PauseFilters(state) ==
  CASE state = "none" -> << >>
    [] state \in { "uncaught", "all" } -> << state >>
    [] OTHER -> exceptionFilters

\* A handler that sends the filters as they were before the command.
CmdSetPauseOnExceptionsStale(state) ==
  /\ CanCommand
  /\ nextId' = nextId + 1
  /\ LET latest == [ Now EXCEPT
                      !.exceptionFilters = PauseFilters(state),
                      !.switchLatest.exc = [ id |-> nextId, state |-> state,
                                             awaits |-> configDoneSent ] ]
     IN IF routerErrored THEN Become("client", Now)
        ELSE IF configDoneSent
        THEN Become("client", Send(latest, Request("setExceptionBreakpoints",
                                         CommandOwner("exc", nextId),
                                         [ filters |-> exceptionFilters ])))
        ELSE Become("client", Defer(latest, "emit", << << getEmptyResponse(nextId) >>,
                                             << "exc", nextId >> >>, 2))
  /\ UNCHANGED << eventCount, sessionVars, resumeCount >>

\* Debugger.setPauseOnExceptions, under switchMap: the command becomes the
\* current inner, whatever the older one was waiting for, and the answer of
\* a handler whose command is not the current one when it is due is dropped.
CmdSetPauseOnExceptions(state) ==
  /\ CanCommand
  /\ nextId' = nextId + 1
  /\ LET latest == [ Now EXCEPT
                      !.exceptionFilters = PauseFilters(state),
                      !.switchLatest.exc = [ id |-> nextId, state |-> state,
                                             awaits |-> configDoneSent ] ]
     IN IF routerErrored THEN Become("client", Now)
        ELSE IF configDoneSent
        THEN Become("client", Send(latest, Request("setExceptionBreakpoints",
                                         CommandOwner("exc", nextId),
                                         [ filters |-> PauseFilters(state) ])))
        ELSE Become("client", Defer(latest, "emit", << << getEmptyResponse(nextId) >>,
                                             << "exc", nextId >> >>, 2))
  /\ UNCHANGED << eventCount, sessionVars, resumeCount >>

\* Debugger.removeBreakpoint: _removeBreakpoint up to its await, or to its
\* return when no record has the id.
CmdRemoveBreakpoint(breakpointId) ==
  LET found == { i \in 1 .. Len(breakpoints) :
                   breakpoints[i].breakpointId = breakpointId }
      foundBreakpointIdx == CHOOSE i \in found : \A j \in found : i <= j
      foundBreakpoint == breakpoints[foundBreakpointIdx]
      remainingBreakpoints ==
        SelectSeq(getBreakpointsForFilePath(breakpoints, foundBreakpoint.path),
                  LAMBDA bp : bp.breakpointId # breakpointId)
      spliced == [ i \in 1 .. Len(breakpoints) - 1 |->
                     IF i < foundBreakpointIdx THEN breakpoints[i]
                     ELSE breakpoints[i + 1] ]
      items == Map(remainingBreakpoints, CopyItem)
      owner == CommandOwner("remove", nextId)
  IN /\ CanCommand
     /\ nextId' = nextId + 1
     /\ IF routerErrored THEN Become("client", Now)
        ELSE IF found = { }
        THEN Become("client", Defer(Now, "emit", << << getEmptyResponse(nextId) >>,
                                          << >> >>, 3))
        ELSE Become("client", Send(
               [ Now EXCEPT !.ledger = spliced,
                            !.syncs = @ \cup
                              { SyncTask(owner, foundBreakpoint.path, items,
                                         << >>, "request") } ],
               Request("setBreakpoints", owner,
                       SetBreakpointsArgs(spliced, foundBreakpoint.path, items))))
     /\ UNCHANGED << eventCount, sessionVars, resumeCount >>

\* Debugger.continueToLocation, under switchMap: _continueToLocation up to
\* its first await, the registration of the file.  The suspended handler is
\* kept with the requests, together with the location it holds.
CmdContinueToLocation(location) ==
  /\ CanCommand
  /\ nextId' = nextId + 1
  /\ Become("client", IF routerErrored THEN Now
            ELSE Send([ Now EXCEPT !.switchLatest.location =
                          [ id |-> nextId, location |-> location ] ],
                      Request("registerFile",
                              CommandOwner("location", nextId), location)))
  /\ UNCHANGED << eventCount, sessionVars, resumeCount >>

\* Debugger.selectThread.
CmdSelectThread(threadId) ==
  /\ CanCommand
  /\ nextId' = nextId + 1
  /\ Become("client", IF routerErrored THEN Now
            ELSE sendMessageToClient(
                   updatePausedThreadId(Now, Some(threadId)),
                   << getEmptyResponse(nextId) >>))
  /\ UNCHANGED << eventCount, sessionVars, resumeCount >>

\* Debugger.pause, up to its await: the thread to pause is the active one
\* or, without one, the first thread of the map (or -1), and the active
\* thread is cleared before the request is sent.
CmdPause ==
  LET keys == MapKeys(threadsById)
      threadId == IF pausedThreadId # None THEN pausedThreadId[1]
                  ELSE IF keys # << >> /\ keys[1] # 0 THEN keys[1]
                  ELSE -1
  IN /\ CanCommand
     /\ nextId' = nextId + 1
     /\ Become("client", IF routerErrored THEN Now
               ELSE Send(updatePausedThreadId(Now, None),
                         Request("pause", CommandOwner("pause", nextId),
                                 [ threadId |-> threadId ])))
     /\ UNCHANGED << eventCount, sessionVars, resumeCount >>

\* The request and the words of the error of each step command.
StepCalls ==
  [ method \in { "Debugger.stepOver", "Debugger.stepInto",
                 "Debugger.stepOut" } |->
      CASE method = "Debugger.stepOver" -> [ call |-> "next", how |-> "over" ]
        [] method = "Debugger.stepInto" -> [ call |-> "stepIn", how |-> "into" ]
        [] OTHER -> [ call |-> "stepOut", how |-> "out" ] ]

\* Debugger.stepOver, Debugger.stepInto, Debugger.stepOut, up to the await:
\* without an active paused thread the handler returns an error.
CmdStep(method) ==
  /\ CanCommand
  /\ nextId' = nextId + 1
  /\ Become("client", IF routerErrored THEN Now
            ELSE IF pausedThreadId = None
            THEN Defer(Now, "emit",
                   << << getErrorResponse(nextId,
                           "No paused thread to step " \o
                           StepCalls[method].how \o "!") >>, << >> >>, 2)
            ELSE Send(Now, Request(StepCalls[method].call,
                                   CommandOwner("step", nextId),
                                   [ threadId |-> pausedThreadId[1] ])))
  /\ UNCHANGED << eventCount, sessionVars, resumeCount >>

\* Debugger.getScriptSource, Debugger.setVariableValue: up to the await.
CmdCaught(method) ==
  /\ CanCommand
  /\ nextId' = nextId + 1
  /\ Become("client", IF routerErrored THEN Now
            ELSE Send(Now, Request(CaughtCalls[method].call,
                                   CommandOwner("caught", nextId), method)))
  /\ UNCHANGED << eventCount, sessionVars, resumeCount >>

\* Debugger.evaluateOnCallFrame and Runtime.evaluate: _evaluateOnCallFrame
\* up to its await.
CmdEvaluate(method) ==
  /\ CanCommand
  /\ nextId' = nextId + 1
  /\ Become("client", IF routerErrored THEN Now
            ELSE Send(Now, Request("evaluate", CommandOwner("eval", nextId),
                        [ expression |-> "e",
                          frameId |-> IF method = "Runtime.evaluate"
                                      THEN None ELSE Some(1) ])))
  /\ UNCHANGED << eventCount, sessionVars, resumeCount >>

\* Debugger.getThreadStack: answered from the thread's frames, or after a
\* fetch of the whole stack when the thread is paused without them.
CmdGetThreadStack(threadId) ==
  LET known == MapHas(threadsById, threadId)
      entry == threadsById[CHOOSE i \in 1 .. Len(threadsById) :
                             threadsById[i].id = threadId]
      threadInfo == entry.info
      paused == known /\ threadInfo.state = "paused"
      fetch == /\ paused
               /\ \/ threadInfo.callFrames = None
                  \/ threadInfo.callFrames[1] = << >>
                  \/ ~threadInfo.callStackLoaded
      callFrames == IF paused /\ threadInfo.callFrames # None
                    THEN threadInfo.callFrames[1] ELSE << >>
  IN /\ CanCommand
     /\ nextId' = nextId + 1
     /\ Become("client", IF routerErrored THEN Now
               ELSE IF fetch
               THEN getTranslatedCallFramesForThread(
                      Now, << "stack", nextId, entry.ref >>, threadId, None)
               ELSE Defer(Now, "emit",
                      << << [ id |-> nextId,
                              result |-> [ callFrames |-> callFrames ] ] >>,
                         << >> >>, 1))
     /\ UNCHANGED << eventCount, sessionVars, resumeCount >>

\* A command of a method that no handler has registered.
CmdUnhandled(method) ==
  /\ CanCommand
  /\ nextId' = nextId + 1
  /\ Become("client", IF routerErrored THEN Now
            ELSE sendMessageToClient(Now,
                   << getErrorResponse(nextId, "Unknown command: " \o method) >>))
  /\ UNCHANGED << eventCount, sessionVars, resumeCount >>

\* Debugger.completions: answered without targets when the adapter has no
\* completions request, else after the request.
CmdCompletions ==
  /\ CanCommand
  /\ nextId' = nextId + 1
  /\ Become("client", IF routerErrored THEN Now
            ELSE IF ~capabilities.supportsCompletionsRequest
            THEN Defer(Now, "emit",
                   << << [ id |-> nextId, result |-> [ targets |-> << >> ] ] >>,
                      << >> >>, 2)
            ELSE Send(Now, Request("completions",
                                   CommandOwner("completions", nextId),
                                   [ text |-> "t", column |-> 1,
                                     frameId |-> Some(11) ])))
  /\ UNCHANGED << eventCount, sessionVars, resumeCount >>

\* Runtime.getProperties: _getProperties up to its await.
CmdGetProperties(objectId) ==
  /\ CanCommand
  /\ nextId' = nextId + 1
  /\ Become("client", IF routerErrored THEN Now
            ELSE Send(Now, Request("variables",
                                   CommandOwner("properties", nextId),
                                   [ variablesReference |->
                                       NumberFromStr(objectId) ])))
  /\ UNCHANGED << eventCount, sessionVars, resumeCount >>

\* Debugger.setDebuggerSettings and Runtime.enable: acknowledged.
CmdAck(method) ==
  /\ CanCommand
  /\ method \in { "Debugger.setDebuggerSettings", "Runtime.enable" }
  /\ nextId' = nextId + 1
  /\ Become("client", IF routerErrored THEN Now
            ELSE sendMessageToClient(Now, << getEmptyResponse(nextId) >>))
  /\ UNCHANGED << eventCount, sessionVars, resumeCount >>

(***************************************************************************)
(* Settlements.  The callback of a response settles the promise of its     *)
(* request, and the FileCache settles the promise of a registration: the   *)
(* function that awaits the promise goes on in a later job.                *)
(***************************************************************************)
\* FileCache.registerFile has settled for the mapper of a file, with
\* success or with a rejection.
RegisterFileDone(t, success) ==
  /\ t \in syncs /\ t.pc = "register"
  /\ Become("files", Defer([ Now EXCEPT !.syncs = (@ \ { t }) \cup
                                   { [ t EXCEPT !.pc = "registered" ] } ],
                  "registered", << t.owner, t.path, success >>, 1))
  /\ UNCHANGED << eventCount, sessionVars, resumeCount, nextId >>

\* FileCache.registerFile has settled for a frame of a stack fetch.
RegisterFrameDone(request, success) ==
  /\ request \in pending /\ request.command = "registerFile"
  /\ request.owner[1] \in { "stop", "stack" }
  /\ Become("files", Defer([ Now EXCEPT !.pend = @ \ { request } ],
                  "frameRegistered", << request, success >>, 1))
  /\ UNCHANGED << eventCount, sessionVars, resumeCount, nextId >>

\* FileCache.registerFile has settled for _continueToLocation.
RegisterLocationDone(request, success) ==
  /\ request \in pending /\ request.command = "registerFile"
  /\ request.owner[1] = "location"
  /\ Become("files", Defer([ Now EXCEPT !.pend = @ \ { request } ],
                  "locationRegistered", << request, success >>, 1))
  /\ UNCHANGED << eventCount, sessionVars, resumeCount, nextId >>

PendingOf(command) == { request \in pending : request.command = command }

IsPending(request, command) ==
  ~disposed /\ request \in pending /\ request.command = command

Answered(request) == [ Now EXCEPT !.pend = @ \ { request } ]

\* The launch/attach response.
RespLaunch(request, success) ==
  /\ IsPending(request, debugMode)
  /\ Become("adapter", Settle(Answered(request), request, success))
  /\ UNCHANGED << eventCount, sessionVars, resumeCount, nextId >>

\* The setBreakpoints response.
RespSetBreakpoints(request, response) ==
  /\ IsPending(request, "setBreakpoints")
  /\ Become("adapter", Settle(Answered(request), request, response))
  /\ UNCHANGED << eventCount, sessionVars, resumeCount, nextId >>

\* The setExceptionBreakpoints response.
RespSetExceptionBreakpoints(request, success) ==
  /\ IsPending(request, "setExceptionBreakpoints")
  /\ Become("adapter", Settle(Answered(request), request, success))
  /\ UNCHANGED << eventCount, sessionVars, resumeCount, nextId >>

\* The configurationDone response.
RespConfigurationDone(request, success) ==
  /\ IsPending(request, "configurationDone")
  /\ Become("adapter", Settle(Answered(request), request, success))
  /\ UNCHANGED << eventCount, sessionVars, resumeCount, nextId >>

\* The continue response.
RespContinue(request, success) ==
  /\ IsPending(request, "continue")
  /\ Become("adapter", Settle(Answered(request), request, success))
  /\ UNCHANGED << eventCount, sessionVars, resumeCount, nextId >>

\* The nuclide_continueToLocation response.
RespContinueToLocation(request, success) ==
  /\ IsPending(request, "continueToLocation")
  /\ Become("adapter", Settle(Answered(request), request, success))
  /\ UNCHANGED << eventCount, sessionVars, resumeCount, nextId >>

\* The pause, next, stepIn or stepOut response.
RespAcknowledged(request, success) ==
  /\ ~disposed
  /\ request \in pending
  /\ request.command \in { "pause", "next", "stepIn", "stepOut" }
  /\ Become("adapter", Settle(Answered(request), request, success))
  /\ UNCHANGED << eventCount, sessionVars, resumeCount, nextId >>

\* The awaited call of a wrapped handler has settled: the session's
\* setVariable, or FileCache.getFileSource.
RespCaught(request, success) ==
  /\ request \in pending
  /\ request.owner[1] = "caught"
  /\ Become("adapter", Settle(Answered(request), request, success))
  /\ UNCHANGED << eventCount, sessionVars, resumeCount, nextId >>

\* The evaluate response.
RespEvaluate(request, success) ==
  /\ IsPending(request, "evaluate")
  /\ Become("adapter", Settle(Answered(request), request, success))
  /\ UNCHANGED << eventCount, sessionVars, resumeCount, nextId >>

\* The completions response.
RespCompletions(request, success) ==
  /\ IsPending(request, "completions")
  /\ Become("adapter", Settle(Answered(request), request, success))
  /\ UNCHANGED << eventCount, sessionVars, resumeCount, nextId >>

\* The variables response.
RespVariables(request, success) ==
  /\ IsPending(request, "variables")
  /\ Become("adapter", Settle(Answered(request), request, success))
  /\ UNCHANGED << eventCount, sessionVars, resumeCount, nextId >>

\* The stackTrace response.
RespStackTrace(request, success) ==
  /\ IsPending(request, "stackTrace")
  /\ Become("adapter", Settle(Answered(request), request, success))
  /\ UNCHANGED << eventCount, sessionVars, resumeCount, nextId >>

\* The scopes response of a frame.
RespScopes(request, success) ==
  /\ IsPending(request, "scopes")
  /\ Become("adapter", Settle(Answered(request), request, success))
  /\ UNCHANGED << eventCount, sessionVars, resumeCount, nextId >>

(***************************************************************************)
(* Adapter events.  The subscribers of the session's events run inside the *)
(* callback that dispatches the event.                                     *)
(***************************************************************************)
\* An initialized event: the first makes the session ready for breakpoints,
\* and a startup that waits for it goes on: its notifier returns in the next
\* job, and the buffer closes in the one after.  Each later event is a
\* restart, handled under switchMap by _syncBreakpoints and _configDone.
EvInitializedUpTo(limit) ==
  /\ ~disposed
  /\ initializedCount < limit
  /\ initializedCount' = initializedCount + 1
  /\ IF initializedCount = 0
     THEN IF startup.pc = "waitInit"
          THEN Become("adapter", Defer([ Now EXCEPT !.ready = TRUE,
                                         !.startup.pc = "closing" ],
                            "StartupFlush", << >>, 2))
          ELSE Become("adapter", [ Now EXCEPT !.ready = TRUE ])
     ELSE Become("adapter", syncBreakpoints(
                   [ Now EXCEPT !.switchLatest.initialized =
                                  initializedCount + 1 ],
                   RestartOwner(initializedCount + 1)))
  /\ UNCHANGED << eventCount, capabilities, debugMode, adapterType, opened,
                  transportVars, resumeCount, nextId >>

EvInitialized == EvInitializedUpTo(MaxInitialized)

\* A thread event.
EvThread(reason, threadId) ==
  LET changed ==
        CASE reason = "started" ->
               updateThreadsState(Now, << threadId >>, "running")
          [] reason = "exited" ->
               LET gone == [ Now EXCEPT !.threads = MapDelete(@, threadId) ]
               IN IF pausedThreadId = Some(threadId)
                  THEN updatePausedThreadId(gone, None) ELSE gone
          [] OTHER -> Now
  IN /\ ~disposed
     /\ eventCount.thread < MaxThreadEvents
     /\ eventCount' = [ eventCount EXCEPT !.thread = @ + 1 ]
     /\ Become("adapter", sendMessageToClient(changed,
                 << [ method |-> "Debugger.threadsUpdated",
                      params |-> getThreadsUpdatedEvent(changed.threads) ] >>))
     /\ UNCHANGED << sessionVars, resumeCount, nextId >>

\* A stopped event, up to the awaits of its stack fetches.  With no thread
\* to fetch for, the Promise.all of the paused events is resolved, and the
\* subscriber is called with it in the next job.
EvStopped(threadId, allThreadsStoppedIn, reason) ==
  LET allThreadsStopped ==
        allThreadsStoppedIn \/
        (adapterType = "python" /\ reason = "user request")
      own == IF threadId # None /\ threadId[1] >= 0
             THEN << threadId[1] >> ELSE << >>
      allStoppedIds ==
        IF allThreadsStopped
        THEN SelectSeq(MapKeys(threadsById), LAMBDA id :
               Some(id) # threadId /\
               MapGet(threadsById, id).state # "paused")
        ELSE << >>
      stoppedThreadIds == own \o allStoppedIds
      n == Len(stops) + 1
      first == IF pausedThreadId = None /\ stoppedThreadIds # << >>
               THEN updatePausedThreadId(Now, Some(stoppedThreadIds[1]))
               ELSE Now
      levels == IF first.ptid # None /\ first.ptid = threadId
                THEN None ELSE Some(1)
      stop == [ n |-> n, threadId |-> threadId, reason |-> reason,
                ids |-> stoppedThreadIds,
                paused |-> [ i \in 1 .. Len(stoppedThreadIds) |-> None ],
                status |-> "fetching", seen |-> << >> ]
      begun == [ StartFetches(first, n, stoppedThreadIds, levels, 1)
                   EXCEPT !.stops = Append(@, stop) ]
  IN /\ ~disposed
     /\ eventCount.stopped < MaxStops
     /\ eventCount' = [ eventCount EXCEPT !.stopped = @ + 1 ]
     /\ Become("adapter", IF stoppedThreadIds = << >>
               THEN Defer(begun, "stopObserved", << n >>, 1) ELSE begun)
     /\ UNCHANGED << sessionVars, resumeCount, nextId >>

\* A filter that lets only an all-threads continue end a stop.
StopEndedByAllThreadsOnly(body, threadId) ==
  \/ body.allThreadsContinued
  \/ body.threadId = None

\* The takeUntil filter of a stop with the given threadId, on a continued
\* event's body.
StopEndedBy(body, threadId) ==
  \/ body.allThreadsContinued
  \/ body.threadId = None
  \/ body.threadId = threadId

\* A continued event: the continued subscriber, then the takeUntil notifier
\* of every stop still fetching.
EvContinued(threadId, allThreadsContinuedIn) ==
  LET body == [ threadId |-> threadId,
                allThreadsContinued |-> allThreadsContinuedIn ]
      allThreadsContinued ==
        allThreadsContinuedIn \/ threadId = None \/ threadId[1] < 0
      cleared == IF allThreadsContinued \/ threadId = pausedThreadId
                 THEN updatePausedThreadId(Now, None) ELSE Now
      continuedThreadIds ==
        IF allThreadsContinued
        THEN SelectSeq(MapKeys(threadsById), LAMBDA id :
               MapGet(threadsById, id).state # "running")
        ELSE << threadId[1] >>
      resumed == sendMessageToClient(
                   updateThreadsState(cleared, continuedThreadIds, "running"),
                   << [ method |-> "Debugger.resumed" ] >>)
      ended == [ resumed EXCEPT !.stops =
                   [ n \in 1 .. Len(stops) |->
                       IF stops[n].status # "fetching" THEN stops[n]
                       ELSE [ stops[n] EXCEPT
                                !.seen = Append(@, body),
                                !.status =
                                  IF StopEndedBy(body, stops[n].threadId)
                                  THEN "cancelled" ELSE @ ] ] ]
  IN /\ ~disposed
     /\ eventCount.continued < MaxContinued
     /\ eventCount' = [ eventCount EXCEPT !.continued = @ + 1 ]
     /\ Become("adapter", ended)
     /\ UNCHANGED << sessionVars, resumeCount, nextId >>

(***************************************************************************)
(* Breakpoint events.                                                      *)
(***************************************************************************)
\* The breakpoint events the adapter sends about file "a", once it has been
\* sent breakpoints of the file: an event names its breakpoint by id or,
\* having none, by line; it is verified or not, with or without a hit count
\* (a missing nuclide_hitCount parses to NaN).
BreakpointEvents ==
  IF adapterLines["a"] = None THEN { }
  ELSE { [ id |-> named.id, verified |-> verified, line |-> named.line,
           originalLine |-> named.originalLine,
           source |-> Some([ path |-> "a" ]),
           nuclide_hitCount |-> hitCount ] :
           named \in { [ id |-> Some(1), line |-> None, originalLine |-> None ],
                       [ id |-> None, line |-> Some(1), originalLine |-> None ],
                       [ id |-> None, line |-> Some(MovedLine),
                         originalLine |-> Some(1) ] },
           verified \in BOOLEAN, hitCount \in { None, Some(1) } }

\* String(breakpoint.id == null ? -1 : breakpoint.id)
BpIdOf(breakpoint) ==
  IF breakpoint.id = None THEN "-1" ELSE ToStr(breakpoint.id[1])

\* The positions of the ledger records that the find() of the subscriber
\* accepts: the record with the event's id, or a record with no id on the
\* event's original line (its line when it has no original line) and path.
FoundRecords(breakpoint) ==
  LET wantedLine == IF breakpoint.originalLine # None
                    THEN breakpoint.originalLine ELSE breakpoint.line
  IN { i \in 1 .. Len(breakpoints) :
         \/ breakpoints[i].breakpointId = BpIdOf(breakpoint)
         \/ /\ breakpoints[i].breakpointId = Null
            /\ wantedLine # None
            /\ breakpoints[i].lineNumber = wantedLine[1]
            /\ breakpoint.source # None
            /\ breakpoints[i].path = breakpoint.source[1].path }

\* The subscriber of the breakpoint events.
EvBreakpoint(breakpoint) ==
  LET bpId == BpIdOf(breakpoint)
      found == FoundRecords(breakpoint)
      existingBreakpoint ==
        breakpoints[CHOOSE i \in found : \A j \in found : i <= j]
      hitCount == breakpoint.nuclide_hitCount
      updated == tryUpdateBreakpoint(existingBreakpoint, breakpoint)
      counted == [ existingBreakpoint EXCEPT !.hitCount = hitCount[1] ]
  IN /\ ~disposed
     /\ eventCount.breakpoint < MaxBreakpointEvents
     /\ eventCount' = [ eventCount EXCEPT !.breakpoint = @ + 1 ]
     /\ IF found = { }
        THEN Become("adapter", Now)
        ELSE IF breakpoint.verified
        THEN Become("adapter", sendMessageToClient(
               [ Now EXCEPT !.ledger = Store(@, updated) ],
               << [ method |-> "Debugger.breakpointResolved",
                    params |-> [ breakpointId |-> bpId,
                                 location |-> nuclideDebuggerLocation(
                                   updated.path, updated.lineNumber - 1, 0) ] ] >>))
        ELSE IF hitCount # None /\ existingBreakpoint.hitCount # hitCount[1]
        THEN Become("adapter", sendMessageToClient(
               [ Now EXCEPT !.ledger = Store(@, counted) ],
               << [ method |-> "Debugger.breakpointHitCountChanged",
                    params |-> [ breakpointId |-> bpId,
                                 hitCount |-> hitCount[1] ] ] >>))
        ELSE Become("adapter", Now)
     /\ UNCHANGED << sessionVars, resumeCount, nextId >>

(***************************************************************************)
(* Output events, initilize() and dispose().  The text of an output is     *)
(* kept as its characters.                                                 *)
(***************************************************************************)
OUTPUT_CATEGORY_TO_LEVEL ==
  [ console |-> "debug", info |-> "info", log |-> "log",
    warning |-> "warning", error |-> "error", debug |-> "debug",
    stderr |-> "error", stdout |-> "log", success |-> "success" ]

\* The string of a sequence of characters.
RECURSIVE Text(_)
Text(chars) == IF chars = << >> THEN "" ELSE Head(chars) \o Text(Tail(chars))

\* output.replace(/\r?\n$/, ''): one line end is taken from the end.
StripLineEnd(chars) ==
  LET n == Len(chars)
  IN IF n >= 2 /\ chars[n - 1] = "\r" /\ chars[n] = "\n"
     THEN SubSeq(chars, 1, n - 2)
     ELSE IF n >= 1 /\ chars[n] = "\n" THEN SubSeq(chars, 1, n - 1)
     ELSE chars

\* The bodies of the output events the adapter sends: lines of the target's
\* output with and without a category, an empty line, an output of a
\* category without a level, and a notification.
OutputBodies ==
  { [ category |-> "stdout", output |-> << "h", "i", "\n" >>, data |-> None ],
    [ category |-> "stderr", output |-> << "h", "i", "\r", "\n" >>,
      data |-> None ],
    [ category |-> Null, output |-> << "h", "i", "\n", "\n" >>, data |-> None ],
    [ category |-> "stdout", output |-> << "\n" >>, data |-> None ],
    [ category |-> "telemetry", output |-> << "h", "i" >>, data |-> None ],
    [ category |-> "nuclide_notification",
      output |-> << "h", "e", "l", "l", "o" >>,
      data |-> Some([ type |-> "info" ]) ] }

\* An output event.
EvOutput(body) ==
  LET category == IF body.category = Null \/ body.category = ""
                  THEN "console" ELSE body.category
      leveled == category \in DOMAIN OUTPUT_CATEGORY_TO_LEVEL
      output == StripLineEnd(body.output)
  IN /\ ~disposed
     /\ eventCount.output < MaxOutputs
     /\ eventCount' = [ eventCount EXCEPT !.output = @ + 1 ]
     /\ Become("adapter", IF leveled /\ Len(output) > 0
               THEN [ Now EXCEPT !.out =
                        Append(@, [ level |-> OUTPUT_CATEGORY_TO_LEVEL[category],
                                    text |-> Text(output) ]) ]
               ELSE IF category = "nuclide_notification"
               THEN [ Now EXCEPT !.notes =
                        Append(@, [ level |-> body.data[1].type,
                                    message |-> Text(body.output) ]) ]
               ELSE Now)
     /\ UNCHANGED << sessionVars, resumeCount, nextId >>

\* initilize(): the initialize request is sent, once at a time.
initilize ==
  /\ ~disposed
  /\ PendingOf("initialize") = { }
  /\ Become("client", Send(Now, Request("initialize", << "initilize", 0 >>,
                   [ clientID |-> "Nuclide",
                     adapterID |-> adapterType,
                     linesStartAt1 |-> TRUE,
                     columnsStartAt1 |-> TRUE,
                     supportsVariableType |-> TRUE,
                     supportsVariablePaging |-> FALSE,
                     supportsRunInTerminalRequest |-> FALSE,
                     pathFormat |-> "path" ])))
  /\ UNCHANGED << eventCount, sessionVars, resumeCount, nextId >>

\* The initialize response: the promise of initilize() settles.
RespInitialize(request) ==
  /\ IsPending(request, "initialize")
  /\ Become("adapter", Settle(Answered(request), request, TRUE))
  /\ UNCHANGED << eventCount, sessionVars, resumeCount, nextId >>

\* dispose(): the session, the command router and the event listeners are
\* disposed.  Nothing is sent to the client afterwards: commands reach no
\* handler and the adapter is gone, but the functions that were suspended
\* go on when their promises settle, those of the session with a failure.
dispose ==
  /\ Become("client", disposeAll(Now))
  /\ UNCHANGED << eventCount, sessionVars, resumeCount, nextId >>

(***************************************************************************)
(* The transport (V8Protocol), at the level of messages.  A request's      *)
(* callback is named by the request's seq; futures records the promise     *)
(* that send() returned for it and how often the callback has been called. *)
(***************************************************************************)
NoFuture == [ state |-> "none", calls |-> 0 ]

TransportCommands == { "threads" }

\* What the adapter sends: events, requests of its own, responses to any seq
\* (so also to none that is pending, and twice to the same), and a body that
\* is not JSON.
IncomingMessages ==
  { [ type |-> "event", seq |-> 1, request_seq |-> None, success |-> TRUE ],
    [ type |-> "request", seq |-> 1, request_seq |-> None, success |-> TRUE ],
    [ type |-> "malformed", seq |-> 1, request_seq |-> None, success |-> TRUE ] }
  \cup { [ type |-> "response", seq |-> 1, request_seq |-> Some(s),
           success |-> success ] : s \in 1 .. MaxWrites, success \in BOOLEAN }

\* A message written with the sequence counter left where it was.
sendMessageKeepsSequence(typ, message) ==
  /\ written' = Append(written, [ message EXCEPT !.type = typ, !.seq = sequence ])
  /\ sequence' = sequence

\* _sendMessage: the message takes the next seq and is written.
sendMessage(typ, message) ==
  /\ written' = Append(written, [ message EXCEPT !.type = typ, !.seq = sequence ])
  /\ sequence' = sequence + 1

\* send(command, args): _doSend writes the request and stores its callback.
send(command, args) ==
  LET request == [ type |-> Null, seq |-> 0, command |-> command,
                   arguments |-> args, request_seq |-> None ]
  IN /\ Len(written) < MaxWrites
     /\ sendMessage("request", request)
     /\ pendingRequests' = pendingRequests \cup { sequence }
     /\ futures' = [ futures EXCEPT ![sequence] =
                       [ state |-> "pending", calls |-> 0 ] ]
     /\ UNCHANGED << reverseResponses, received, serverErrors, decoderVars,
                     streamVars, translatorVars >>

\* sendResponse(response), for the i-th response object: written once.
sendResponse(i) ==
  LET response == reverseResponses[i]
  IN /\ i \in 1 .. Len(reverseResponses)
     /\ Len(written) < MaxWrites
     /\ IF response.seq > 0
        THEN UNCHANGED << written, sequence, reverseResponses >>
        ELSE /\ sendMessage("response", response)
             /\ reverseResponses' =
                  [ reverseResponses EXCEPT ![i].seq = sequence ]
     /\ UNCHANGED << pendingRequests, futures, received, serverErrors,
                     decoderVars, streamVars, translatorVars >>

\* The callback of send(): the promise settles on its first call.
Called(future, response) ==
  [ state |-> IF future.state # "pending" THEN future.state
              ELSE IF response.success THEN "resolved" ELSE "rejected",
    calls |-> future.calls + 1 ]

\* A dispatch that leaves the callback in the table.
dispatchKeepsCallback(rawData) ==
  /\ readable = "open"
  /\ Len(received) < MaxDispatch
  /\ received' = Append(received, rawData)
  /\ CASE rawData.type = "response" ->
            /\ IF rawData.request_seq[1] \in pendingRequests
               THEN futures' = [ futures EXCEPT ![rawData.request_seq[1]] =
                                   Called(@, rawData) ]
               ELSE UNCHANGED futures
            /\ UNCHANGED << pendingRequests, reverseResponses, serverErrors >>
       [] OTHER ->
            UNCHANGED << pendingRequests, futures, reverseResponses,
                         serverErrors >>
  /\ UNCHANGED << sequence, written, decoderVars, streamVars, translatorVars >>

\* _dispatch(body): an event goes to onEvent; a response to the callback
\* stored under its request_seq, if there is one; a request to
\* dispatchRequest with a response object to fill in; a body that does not
\* parse to onServerError.
dispatch(rawData) ==
  /\ readable = "open"
  /\ Len(received) < MaxDispatch
  /\ received' = Append(received, rawData)
  /\ CASE rawData.type = "response" ->
            /\ IF rawData.request_seq[1] \in pendingRequests
               THEN /\ pendingRequests' =
                         pendingRequests \ { rawData.request_seq[1] }
                    /\ futures' = [ futures EXCEPT ![rawData.request_seq[1]] =
                                      Called(@, rawData) ]
               ELSE UNCHANGED << pendingRequests, futures >>
            /\ UNCHANGED << reverseResponses, serverErrors >>
       [] rawData.type = "request" ->
            /\ reverseResponses' =
                 Append(reverseResponses,
                        [ type |-> "response", seq |-> 0, command |-> Null,
                          arguments |-> None,
                          request_seq |-> Some(rawData.seq) ])
            /\ UNCHANGED << pendingRequests, futures, serverErrors >>
       [] rawData.type = "malformed" ->
            /\ serverErrors' = serverErrors + 1
            /\ UNCHANGED << pendingRequests, futures, reverseResponses >>
       [] OTHER ->
            UNCHANGED << pendingRequests, futures, reverseResponses,
                         serverErrors >>
  /\ UNCHANGED << sequence, written, decoderVars, streamVars, translatorVars >>

\* The adapter's output ends.  connect() listens to 'data' only: nothing of
\* the transport runs, and no further data arrives.
streamEnd ==
  /\ readable = "open"
  /\ readable' = "ended"
  /\ UNCHANGED << sequence, pendingRequests, written, futures,
                  reverseResponses, received, serverErrors, decoderVars,
                  unread, translatorVars >>

(***************************************************************************)
(* The transport's decoder (V8Protocol._handleData), at the level of       *)
(* characters: the adapter's output arrives in chunks, each appended to    *)
(* _rawData; every element of a chunk is one character, and one byte.      *)
(***************************************************************************)
TWO_CRLF == << "\r", "\n", "\r", "\n" >>

ContentLengthPrefix ==
  << "C", "o", "n", "t", "e", "n", "t", "-", "L", "e", "n", "g", "t", "h",
     ":", " " >>

DigitChars == { Digits[i] : i \in 1 .. 10 }

\* s.lastIndexOf(pattern): the place of the last occurrence.
IndexOfLast(s, pattern) ==
  LET places == { i \in 0 .. Len(s) - Len(pattern) :
                    SubSeq(s, i + 1, i + Len(pattern)) = pattern }
  IN IF places = { } THEN -1
     ELSE CHOOSE i \in places : \A j \in places : i >= j

\* s.indexOf(pattern): the 0-based place of its first occurrence, or -1.
IndexOf(s, pattern) ==
  LET places == { i \in 0 .. Len(s) - Len(pattern) :
                    SubSeq(s, i + 1, i + Len(pattern)) = pattern }
  IN IF places = { } THEN -1
     ELSE CHOOSE i \in places : \A j \in places : i <= j

\* /Content-Length: (\d+)/.exec(s): the digits of the first match, if any.
ContentLengthMatch(s) ==
  LET n == Len(ContentLengthPrefix)
      places == { i \in 0 .. Len(s) - n - 1 :
                    /\ SubSeq(s, i + 1, i + n) = ContentLengthPrefix
                    /\ s[i + n + 1] \in DigitChars }
      at == CHOOSE i \in places : \A j \in places : i <= j
      last == CHOOSE k \in at + n + 1 .. Len(s) :
                /\ \A j \in at + n + 1 .. k : s[j] \in DigitChars
                /\ k = Len(s) \/ s[k + 1] \notin DigitChars
  IN IF places = { } THEN None ELSE Some(SubSeq(s, at + n + 1, last))

\* Number(digits), for a string of digits.
RECURSIVE NumberOf(_)
NumberOf(digits) ==
  IF digits = << >> THEN 0
  ELSE 10 * NumberOf(SubSeq(digits, 1, Len(digits) - 1))
       + (CHOOSE d \in 0 .. 9 : Digits[d + 1] = digits[Len(digits)])

\* JSON.parse(text) returns, for a text of the characters above: white space
\* around an empty object or around a number.
IsJsonText(text) ==
  LET Ws == { " ", "\r", "\n" }
      AllIn(v, chars) == \A i \in 1 .. Len(v) : v[i] \in chars
      IsInt(v) == /\ v # << >>
                  /\ AllIn(v, DigitChars)
                  /\ Len(v) = 1 \/ v[1] # "0"
      Unsigned(v) == IF v # << >> /\ v[1] = "-" THEN Tail(v) ELSE v
      IsNumber(v) ==
        LET u == Unsigned(v)
        IN \/ IsInt(u)
           \/ \E k \in 2 .. Len(u) - 1 :
                /\ u[k] = "e"
                /\ IsInt(SubSeq(u, 1, k - 1))
                /\ Unsigned(SubSeq(u, k + 1, Len(u))) # << >>
                /\ AllIn(Unsigned(SubSeq(u, k + 1, Len(u))), DigitChars)
      IsObject(v) == /\ Len(v) >= 2
                     /\ v[1] = "{" /\ v[Len(v)] = "}"
                     /\ AllIn(SubSeq(v, 2, Len(v) - 1), Ws)
  IN \E a, b \in 1 .. Len(text) :
       /\ a <= b
       /\ AllIn(SubSeq(text, 1, a - 1), Ws)
       /\ AllIn(SubSeq(text, b + 1, Len(text)), Ws)
       /\ IsObject(SubSeq(text, a, b)) \/ IsNumber(SubSeq(text, a, b))

\* _handleData: the loop over the buffer; out collects the messages handed
\* to _dispatch.
RECURSIVE handleData(_)
handleData(d) ==
  IF d.contentLength >= 0
  THEN IF Len(d.rawData) >= d.contentLength
       THEN LET message == SubSeq(d.rawData, 1, d.contentLength)
            IN handleData(
                 [ rawData |-> SubSeq(d.rawData, d.contentLength + 1,
                                      Len(d.rawData)),
                   contentLength |-> -1,
                   out |-> IF Len(message) > 0 THEN Append(d.out, message)
                           ELSE d.out ])
       ELSE d
  ELSE LET idx == IndexOf(d.rawData, TWO_CRLF)
           match == ContentLengthMatch(d.rawData)
       IN IF idx # -1 /\ match # None
          THEN handleData(
                 [ rawData |-> SubSeq(d.rawData, idx + Len(TWO_CRLF) + 1,
                                      Len(d.rawData)),
                   contentLength |-> NumberOf(match[1]),
                   out |-> d.out ])
          ELSE d

\* The 'data' listener of connect(): the chunk is appended and _handleData
\* run; _dispatch parses each message, and a text that does not parse goes
\* to onServerError.  The texts of this specification parse to values
\* without a type, which _dispatch passes over.  Where the chunk comes from
\* is the caller's: emitsAll and emits say what is left unread.
onData(chunk) ==
  LET d == handleData([ rawData |-> rawDataBuffer \o chunk,
                        contentLength |-> contentLength, out |-> << >> ])
      parsed == [ i \in 1 .. Len(d.out) |->
                    [ type |-> IF IsJsonText(d.out[i]) THEN "none"
                               ELSE "malformed",
                      text |-> d.out[i] ] ]
  IN /\ readable = "open"
     /\ Len(received) < MaxDispatch
     /\ Len(rawDataBuffer) + Len(chunk) <= MaxBuffer
     /\ rawDataBuffer' = d.rawData
     /\ contentLength' = d.contentLength
     /\ received' = received \o parsed
     /\ serverErrors' = serverErrors
          + Cardinality({ i \in 1 .. Len(parsed) : parsed[i].type = "malformed" })
     /\ UNCHANGED << sequence, pendingRequests, written, futures,
                     reverseResponses, readable, translatorVars >>

(***************************************************************************)
(* Terminal URIs (infoFromUri).  A URI is taken as the query that          *)
(* url.parse(paneUri, true) makes of it: a parameter the URI lacks is      *)
(* undefined.  An object is the function of its keys; the outcome of a     *)
(* call is the object returned, or that the call threw.                    *)
(***************************************************************************)
Undefined == "undefined"

\* The token of this instance (crypto.randomBytes(256), in hex).
trustToken == "secret"

TERMINAL_DEFAULT_LOCATION == "pane"
TERMINAL_DEFAULT_ICON == "terminal"

\* JSON.parse, on the texts the URIs of the model carry: the texts that
\* parse, with their values; any other text throws.
JsonValues ==
  ("[]" :> << >>) @@ ("[1]" :> << 1 >>) @@ ("[[1,2]]" :> << << 1, 2 >> >>)
  @@ ("{\"file\":\"sh\"}" :> [ file |-> "sh" ])

NoFields == [ k \in { } |-> Undefined ]

Returned(info) == [ threw |-> FALSE, info |-> info ]
Thrown == [ threw |-> TRUE, info |-> NoFields ]

\* The fields that are legal from a trusted source only.
TrustedFieldNames ==
  { "cwd", "command", "environmentVariables", "preservedCommands",
    "initialInput" }

\* infoFromUri.  The three JSON.parse calls come before the test of the
\* token; a Map is the list of its entries.
infoFromUri(query, uriFromTrustedSource) ==
  LET preservedCommandsText ==
        IF query.preservedCommands \in { Undefined, "" }
        THEN "[]" ELSE query.preservedCommands
      parsedTexts ==
        (IF query.command # "" THEN { query.command } ELSE { })
        \cup (IF query.environmentVariables \notin { Undefined, "" }
              THEN { query.environmentVariables } ELSE { })
        \cup { preservedCommandsText }
      cwd == IF query.cwd = "" THEN NoFields ELSE "cwd" :> query.cwd
      command == IF query.command # ""
                 THEN "command" :> JsonValues[query.command] ELSE NoFields
      title == IF query.title = "" THEN NoFields ELSE "title" :> query.title
      remainOnCleanExit == query.remainOnCleanExit = "true"
      key == query.key
      defaultLocation ==
        IF query.defaultLocation # Undefined /\ query.defaultLocation # ""
        THEN query.defaultLocation ELSE TERMINAL_DEFAULT_LOCATION
      icon == IF query.icon # Undefined /\ query.icon # ""
              THEN query.icon ELSE TERMINAL_DEFAULT_ICON
      environmentVariables ==
        IF query.environmentVariables \notin { Undefined, "" }
        THEN JsonValues[query.environmentVariables] ELSE << >>
      preservedCommands == JsonValues[preservedCommandsText]
      initialInput == IF query.initialInput # Undefined
                      THEN query.initialInput ELSE ""
      trustedFields ==
        ("initialInput" :> initialInput)
        @@ ("preservedCommands" :> preservedCommands)
        @@ ("environmentVariables" :> environmentVariables)
        @@ command @@ cwd
      untrustedFields ==
        ("key" :> key) @@ ("icon" :> icon)
        @@ ("defaultLocation" :> defaultLocation)
        @@ ("remainOnCleanExit" :> remainOnCleanExit) @@ title
      isTrusted == uriFromTrustedSource \/ query.trustToken = trustToken
  IN IF ~(parsedTexts \subseteq DOMAIN JsonValues) THEN Thrown
     ELSE Returned(IF isTrusted THEN trustedFields @@ untrustedFields
                   ELSE untrustedFields)

\* A call of infoFromUri, the one of a behaviour; opened keeps the call and
\* its outcome.
openUri(query, uriFromTrustedSource) ==
  /\ opened = None
  /\ opened' = Some([ query |-> query,
                      uriFromTrustedSource |-> uriFromTrustedSource,
                      outcome |-> infoFromUri(query, uriFromTrustedSource) ])
  /\ UNCHANGED << ledgerVars, threadVars, initializedCount, capabilities,
                  debugMode, adapterType, transportVars, pipeVars, ioVars,
                  flagVars >>

(***************************************************************************)
(* The command router's specification.                                     *)
(***************************************************************************)
InitSession ==
  /\ breakpoints = << >>
  /\ lastBreakpointId = 0
  /\ configDoneSent = FALSE
  /\ exceptionFilters = << >>
  /\ threadsById = << >>
  /\ pausedThreadId = None
  /\ pausedThreadIdPrevious = None
  /\ activated = { }
  /\ initializedCount = 0
  /\ \E configuration \in Configurations :
       /\ debugMode = configuration.debugMode
       /\ adapterType = configuration.adapterType
       /\ capabilities = configuration.capabilities
  /\ bpStage = "buffer"
  /\ buffered = << >>
  /\ resumeCount = 0
  /\ startup = [ pc |-> "idle", resume |-> 0, commands |-> << >>,
                 results |-> << >>, sent |-> << >> ]
  /\ syncs = { }
  /\ switchLatest = [ exc |-> [ id |-> 0, state |-> Null, awaits |-> FALSE ],
                      initialized |-> 0,
                      location |-> [ id |-> 0, location |-> << >> ] ]
  /\ routerErrored = FALSE
  /\ microtasks = << >>
  /\ turn = Null
  /\ stops = << >>
  /\ fetches = { }
  /\ pending = { }
  /\ adapterFilters = None
  /\ adapterLines = [ path \in Paths |-> None ]
  /\ responses = [ id \in 1 .. MaxCommands |-> << >> ]
  /\ events = << >>
  /\ threadsUpdated = None
  /\ notifications = << >>
  /\ userOutput = << >>
  /\ disposed = FALSE
  /\ nextId = 1
  /\ nextUid = 1
  /\ eventCount = [ thread |-> 0, stopped |-> 0, continued |-> 0,
                     breakpoint |-> 0, output |-> 0 ]
  /\ sequence = 1
  /\ pendingRequests = { }
  /\ written = << >>
  /\ futures = [ seq \in 1 .. MaxWrites |-> NoFuture ]
  /\ reverseResponses = << >>
  /\ received = << >>
  /\ serverErrors = 0
  /\ rawDataBuffer = << >>
  /\ contentLength = -1
  /\ unread = << >>
  /\ readable = "open"
  /\ opened = None

\* A session in which a callback may follow a queued job in MaxSharedTurns
\* of its turns.
Init == InitSession /\ turnsToShare = MaxSharedTurns

\* A session in which every callback has its turn to itself.
InitOneByOne == InitSession /\ turnsToShare = 0

KnownIds == { breakpoints[i].breakpointId : i \in 1 .. Len(breakpoints) } \ { Null }

Responses ==
  \/ \E request \in pending, success \in BOOLEAN : RespLaunch(request, success)
  \/ \E request \in pending, success \in BOOLEAN :
       RespSetExceptionBreakpoints(request, success)
  \/ \E request \in pending, success \in BOOLEAN :
       RespConfigurationDone(request, success)

\* The startup: the commands a client sends before its first
\* Debugger.resume, the resume, and what the adapter and the file cache
\* answer, in turns of one or more callbacks.
Next ==
  \/ RunMicrotasks
  \/ \E url \in Paths, lineNumber \in ClientLines :
       resumeCount = 0 /\ CmdSetBreakpointByUrl(url, lineNumber)
  \/ CmdFirstResume
  \/ resumeCount = 0 /\ CmdSetPauseOnExceptions("all")
  \/ \E t \in syncs, success \in BOOLEAN : RegisterFileDone(t, success)
  \/ \E request \in PendingOf("setBreakpoints") :
       \E response \in SetBreakpointsResponses(request.arguments) :
         RespSetBreakpoints(request, response)
  \/ Responses
  \/ EvInitialized

Spec == Init /\ [][Next]_vars

(***************************************************************************)
(* The breakpoints' specification: breakpoints set before and after the    *)
(* first resume and removed, in two files, with every callback in a turn   *)
(* of its own.                                                             *)
(***************************************************************************)
NextSync ==
  \/ \E url \in Paths, lineNumber \in ClientLines :
       CmdSetBreakpointByUrl(url, lineNumber)
  \/ CmdFirstResume
  \/ \E state \in { "all" } : CmdSetPauseOnExceptions(state)
  \/ \E breakpointId \in KnownIds \cup { "0" } : CmdRemoveBreakpoint(breakpointId)
  \/ \E t \in syncs, success \in BOOLEAN : RegisterFileDone(t, success)
  \/ \E request \in PendingOf("setBreakpoints") :
       \E response \in SetBreakpointsResponses(request.arguments) :
         RespSetBreakpoints(request, response)
  \/ Responses
  \/ EvInitialized

SpecSync == InitOneByOne /\ [][NextSync]_vars

(***************************************************************************)
(* The exception filters' specification: the commands that read or write   *)
(* the filters and the flag, on a session without breakpoints, from        *)
(* initilize() to dispose(), with the adapter's output events.             *)
(***************************************************************************)
NextFilters ==
  \/ initilize
  \/ \E request \in pending : RespInitialize(request)
  \/ CmdEnable
  \/ CmdFirstResume
  \/ CmdResume
  \/ \E state \in PauseStates : CmdSetPauseOnExceptions(state)
  \/ \E request \in pending, success \in BOOLEAN : RespContinue(request, success)
  \/ Responses
  \/ EvInitialized
  \/ \E body \in OutputBodies : EvOutput(body)
  \/ dispose

SpecFilters == InitOneByOne /\ [][NextFilters]_vars

(***************************************************************************)
(* The specification of the latest filters: Debugger.setPauseOnExceptions  *)
(* before, during and after the startup of a session without breakpoints,  *)
(* several of them in one turn or in one turn with the adapter's answers.  *)
(***************************************************************************)
NextLatest ==
  \/ RunMicrotasks
  \/ CmdFirstResume
  \/ \E state \in PauseStates : CmdSetPauseOnExceptions(state)
  \/ Responses
  \/ EvInitialized

SpecLatest == Init /\ [][NextLatest]_vars

(***************************************************************************)
(* The event translator's specification: one stopped event of any kind,    *)
(* its stack fetches frame by frame, thread and continued events, and the  *)
(* commands that move or clear the active paused thread.                   *)
(***************************************************************************)
NextStop ==
  \/ \E reason \in { "started", "exited" }, threadId \in ThreadIds :
       EvThread(reason, threadId)
  \/ \E threadId \in StopThreadIds, allThreadsStopped \in BOOLEAN,
        reason \in StopReasons :
       stops = << >> /\ EvStopped(threadId, allThreadsStopped, reason)
  \/ \E threadId \in ContinuedThreadIds, allThreadsContinued \in BOOLEAN :
       EvContinued(threadId, allThreadsContinued)
  \/ \E request \in pending, success \in BOOLEAN :
       RespStackTrace(request, success)
  \/ \E request \in pending : RegisterFrameDone(request, TRUE)
  \/ \E request \in pending, success \in BOOLEAN : RespScopes(request, success)
  \/ \E threadId \in ThreadIds : nextId <= MaxSelects /\ CmdSelectThread(threadId)
  \/ nextId <= MaxSelects /\ CmdPause
  \/ \E request \in pending, success \in BOOLEAN :
       RespAcknowledged(request, success)

SpecStop == InitOneByOne /\ [][NextStop]_vars

(***************************************************************************)
(* The specification of the paused events: a thread starts, thread 2 stops *)
(* twice, alone or with all threads, and a thread or all threads continue, *)
(* between the answers to the stops' fetches or in one turn with them.     *)
(* The requests of a fetch do not fail.                                    *)
(***************************************************************************)
NextPaused ==
  \/ RunMicrotasks
  \/ EvThread("started", 1)
  \/ \E allThreadsStopped \in BOOLEAN :
       EvStopped(Some(2), allThreadsStopped, "breakpoint")
  \/ \E threadId \in ThreadIds : EvContinued(Some(threadId), FALSE)
  \/ EvContinued(Some(2), TRUE)
  \/ \E request \in pending : RespStackTrace(request, TRUE)
  \/ \E request \in pending : RegisterFrameDone(request, TRUE)
  \/ \E request \in pending : RespScopes(request, TRUE)

SpecPaused == Init /\ [][NextPaused]_vars

(***************************************************************************)
(* The specification of stops that overlap: threads start, stopped events  *)
(* name their thread, a second one may arrive while the first still        *)
(* fetches, and Debugger.selectThread moves the active paused thread.      *)
(***************************************************************************)
NextStops ==
  \/ \E threadId \in ThreadIds : EvThread("started", threadId)
  \/ \E threadId \in ThreadIds, allThreadsStopped \in BOOLEAN,
        reason \in StopReasons :
       EvStopped(Some(threadId), allThreadsStopped, reason)
  \/ \E request \in pending, success \in BOOLEAN :
       RespStackTrace(request, success)
  \/ \E request \in pending : RegisterFrameDone(request, TRUE)
  \/ \E request \in pending : RespScopes(request, TRUE)
  \/ \E threadId \in ThreadIds : nextId <= MaxSelects /\ CmdSelectThread(threadId)

SpecStops == InitOneByOne /\ [][NextStops]_vars

(***************************************************************************)
(* The breakpoint ledger's specification: the breakpoints of one file,     *)
(* with an adapter that moves breakpoints, leaves some unverified, fails   *)
(* setBreakpoints requests, restarts (and, restarted, reports every        *)
(* breakpoint of a re-sync unverified), and sends one breakpoint event     *)
(* about the breakpoint of client line 0.                                  *)
(***************************************************************************)
NextLedger ==
  \/ RunMicrotasks
  \/ \E lineNumber \in ClientLines : CmdSetBreakpointByUrl("a", lineNumber)
  \/ CmdFirstResume
  \/ \E t \in syncs, success \in BOOLEAN : RegisterFileDone(t, success)
  \/ \E request \in PendingOf("setBreakpoints") :
       \E response \in SetBreakpointsResponsesMoved(request.arguments) :
         /\ request.owner[1] = "restart" =>
              \A i \in 1 .. Len(response.breakpoints) :
                ~response.breakpoints[i].verified
         /\ RespSetBreakpoints(request, response)
  \/ \E request \in pending : RespLaunch(request, TRUE)
  \/ \E request \in pending : RespSetExceptionBreakpoints(request, TRUE)
  \/ EvInitialized
  \/ \E breakpoint \in { b \in BreakpointEvents :
                           b.nuclide_hitCount = None /\ b.originalLine = None } :
       eventCount.breakpoint = 0 /\ EvBreakpoint(breakpoint)

\* An attach session.
InitLedger == Init /\ debugMode = "attach"

SpecLedger == InitLedger /\ [][NextLedger]_vars

(***************************************************************************)
(* The specification of the results of Debugger.setBreakpointByUrl: the    *)
(* breakpoints of one file, with an adapter that moves breakpoints, leaves *)
(* some unverified, fails requests, and sends one verified breakpoint      *)
(* event, which names its breakpoint by id or by line and may move it.     *)
(* The adapter does not restart: a re-sync works on copies of the records. *)
(***************************************************************************)
NextResults ==
  \/ RunMicrotasks
  \/ \E lineNumber \in ClientLines : CmdSetBreakpointByUrl("a", lineNumber)
  \/ CmdFirstResume
  \/ \E t \in syncs : RegisterFileDone(t, TRUE)
  \/ \E request \in PendingOf("setBreakpoints") :
       \E response \in SetBreakpointsResponsesMoved(request.arguments) :
         RespSetBreakpoints(request, response)
  \/ \E request \in pending : RespLaunch(request, TRUE)
  \/ \E request \in pending : RespSetExceptionBreakpoints(request, TRUE)
  \/ EvInitializedUpTo(1)
  \/ \E breakpoint \in { b \in BreakpointEvents :
                           /\ b.verified
                           /\ b.nuclide_hitCount = None } :
       eventCount.breakpoint = 0 /\ EvBreakpoint(breakpoint)

SpecResults == InitLedger /\ [][NextResults]_vars

(***************************************************************************)
(* The breakpoint events' specification: the breakpoints of one file set   *)
(* and removed, and the breakpoint events of an adapter that does not      *)
(* restart and answers the startup's requests with success.                *)
(***************************************************************************)
NextEvents ==
  \/ \E lineNumber \in ClientLines : CmdSetBreakpointByUrl("a", lineNumber)
  \/ CmdFirstResume
  \/ \E breakpointId \in KnownIds : CmdRemoveBreakpoint(breakpointId)
  \/ \E t \in syncs : RegisterFileDone(t, TRUE)
  \/ \E request \in PendingOf("setBreakpoints") :
       \E response \in SetBreakpointsResponsesMoved(request.arguments) :
         RespSetBreakpoints(request, response)
  \/ \E request \in pending : RespLaunch(request, TRUE)
  \/ \E request \in pending : RespSetExceptionBreakpoints(request, TRUE)
  \/ initializedCount = 0 /\ EvInitialized
  \/ \E breakpoint \in BreakpointEvents : EvBreakpoint(breakpoint)

\* An attach session in which every callback has its turn to itself.
InitEvents == InitOneByOne /\ debugMode = "attach"

SpecEvents == InitEvents /\ [][NextEvents]_vars

(***************************************************************************)
(* The removals' specification: a session whose startup has finished, with *)
(* no breakpoint buffered, after a first Debugger.resume of id 0; then     *)
(* breakpoints set and removed in file "a", with an adapter that numbers   *)
(* every breakpoint.  InitSteady is the state the startup leaves.          *)
(***************************************************************************)
InitSteady ==
  /\ breakpoints = << >>
  /\ lastBreakpointId = 0
  /\ configDoneSent = TRUE
  /\ exceptionFilters = << >>
  /\ threadsById = << >>
  /\ pausedThreadId = None
  /\ pausedThreadIdPrevious = None
  /\ activated = { }
  /\ initializedCount = 1
  /\ \E configuration \in Configurations :
       /\ debugMode = configuration.debugMode
       /\ adapterType = configuration.adapterType
       /\ capabilities = configuration.capabilities
  /\ bpStage = "steady"
  /\ buffered = << >>
  /\ resumeCount = 1
  /\ startup = [ pc |-> "done", resume |-> 0, commands |-> << >>,
                 results |-> << >>, sent |-> << >> ]
  /\ syncs = { }
  /\ switchLatest = [ exc |-> [ id |-> 0, state |-> Null, awaits |-> FALSE ],
                      initialized |-> 0,
                      location |-> [ id |-> 0, location |-> << >> ] ]
  /\ routerErrored = FALSE
  /\ microtasks = << >>
  /\ turn = Null
  /\ turnsToShare = 0
  /\ stops = << >>
  /\ fetches = { }
  /\ pending = { }
  /\ adapterFilters = Some(<< >>)
  /\ adapterLines = [ path \in Paths |-> None ]
  /\ responses = [ id \in 0 .. MaxCommands |->
                     IF id = 0 THEN << getEmptyResponse(0) >> ELSE << >> ]
  /\ events = << >>
  /\ threadsUpdated = None
  /\ notifications = << >>
  /\ userOutput = << >>
  /\ disposed = FALSE
  /\ nextId = 1
  /\ nextUid = 1
  /\ eventCount = [ thread |-> 0, stopped |-> 0, continued |-> 0,
                     breakpoint |-> 0, output |-> 0 ]
  /\ sequence = 1
  /\ pendingRequests = { }
  /\ written = << >>
  /\ futures = [ seq \in 1 .. MaxWrites |-> NoFuture ]
  /\ reverseResponses = << >>
  /\ received = << >>
  /\ serverErrors = 0
  /\ rawDataBuffer = << >>
  /\ contentLength = -1
  /\ unread = << >>
  /\ readable = "open"
  /\ opened = None

NextRemove ==
  \/ \E lineNumber \in ClientLines : CmdSetBreakpointByUrl("a", lineNumber)
  \/ \E breakpointId \in KnownIds \cup { "0" } :
       CmdRemoveBreakpoint(breakpointId)
  \/ \E t \in syncs, success \in BOOLEAN : RegisterFileDone(t, success)
  \/ \E request \in PendingOf("setBreakpoints") :
       \E response \in SetBreakpointsResponsesNumbered(request.arguments) :
         RespSetBreakpoints(request, response)

SpecRemove == InitSteady /\ [][NextRemove]_vars

(***************************************************************************)
(* The restarts' specification: breakpoints on line 0 of two files set     *)
(* before the first resume, the exception filters, and an adapter that     *)
(* restarts twice.                                                         *)
(***************************************************************************)
NextRestart ==
  \/ RunMicrotasks
  \/ \E url \in Paths : resumeCount = 0 /\ CmdSetBreakpointByUrl(url, 0)
  \/ CmdFirstResume
  \/ \E state \in { "all" } : CmdSetPauseOnExceptions(state)
  \/ \E t \in syncs : RegisterFileDone(t, TRUE)
  \/ \E request \in PendingOf("setBreakpoints") :
       \E response \in SetBreakpointsResponsesNumbered(request.arguments) :
         RespSetBreakpoints(request, response)
  \/ \E request \in pending : RespLaunch(request, TRUE)
  \/ \E request \in pending, success \in BOOLEAN :
       RespSetExceptionBreakpoints(request, success)
  \/ \E request \in pending, success \in BOOLEAN :
       RespConfigurationDone(request, success)
  \/ EvInitializedUpTo(MaxRestartInitialized)

SpecRestart == Init /\ [][NextRestart]_vars

(***************************************************************************)
(* The command router's error handling: commands answered from one awaited *)
(* call that may fail, with a thread that stops so that its stack (of one  *)
(* frame) can be asked for.                                                *)
(***************************************************************************)
NextCommands ==
  \/ \E method \in DOMAIN CaughtCalls : CmdCaught(method)
  \/ \E request \in pending, success \in BOOLEAN : RespCaught(request, success)
  \/ \E method \in { "Debugger.evaluateOnCallFrame", "Runtime.evaluate" } :
       CmdEvaluate(method)
  \/ \E request \in pending, success \in BOOLEAN : RespEvaluate(request, success)
  \/ CmdGetThreadStack(2)
  \/ CmdUnhandled("Debugger.unknown")
  \/ EvStopped(Some(2), FALSE, "breakpoint")
  \/ \E request \in pending, success \in BOOLEAN :
       RespStackTrace(request, success)
  \/ \E request \in pending, success \in BOOLEAN :
       RegisterFrameDone(request, success)
  \/ \E request \in pending, success \in BOOLEAN : RespScopes(request, success)

SpecCommands == InitOneByOne /\ [][NextCommands]_vars

(***************************************************************************)
(* The specification of the commands answered at once or from one request  *)
(* of the session: the steps, Debugger.pause, completions, properties and  *)
(* the acknowledged settings, with a thread that stops and continues.      *)
(***************************************************************************)
NextReplies ==
  \/ \E method \in DOMAIN StepCalls : CmdStep(method)
  \/ CmdPause
  \/ \E request \in pending, success \in BOOLEAN :
       RespAcknowledged(request, success)
  \/ CmdCompletions
  \/ \E request \in pending, success \in BOOLEAN :
       RespCompletions(request, success)
  \/ CmdGetProperties("7")
  \/ \E request \in pending, success \in BOOLEAN : RespVariables(request, success)
  \/ \E method \in { "Debugger.setDebuggerSettings", "Runtime.enable" } :
       CmdAck(method)
  \/ EvStopped(Some(2), FALSE, "breakpoint")
  \/ EvContinued(Some(2), FALSE)
  \/ \E request \in pending : RespStackTrace(request, TRUE)
  \/ \E request \in pending : RegisterFrameDone(request, TRUE)
  \/ \E request \in pending : RespScopes(request, TRUE)

SpecReplies == InitOneByOne /\ [][NextReplies]_vars

(***************************************************************************)
(* The specification of Debugger.getThreadStack: stops of single threads,  *)
(* of which the first becomes the active one, and the command for every    *)
(* thread.                                                                 *)
(***************************************************************************)
NextStack ==
  \/ \E threadId \in ThreadIds : EvStopped(Some(threadId), FALSE, "breakpoint")
  \/ \E request \in pending, success \in BOOLEAN :
       RespStackTrace(request, success)
  \/ \E threadId \in ThreadIds : CmdGetThreadStack(threadId)
  \/ \E request \in pending : RegisterFrameDone(request, TRUE)
  \/ \E request \in pending : RespScopes(request, TRUE)

SpecStack == InitOneByOne /\ [][NextStack]_vars

(***************************************************************************)
(* The specification of Debugger.continueToLocation.                       *)
(***************************************************************************)
ClientLocations ==
  { [ scriptId |-> "a", lineNumber |-> lineNumber,
      columnNumber |-> columnNumber, threadId |-> threadId ] :
      lineNumber \in ClientLines,
      columnNumber \in { None } \cup { Some(c) : c \in 0 .. MaxColumn },
      threadId \in { None, Some(1) } }

NextLocation ==
  \/ \E location \in ClientLocations : CmdContinueToLocation(location)
  \/ \E request \in pending, success \in BOOLEAN :
       RegisterLocationDone(request, success)
  \/ \E request \in pending, success \in BOOLEAN :
       RespContinueToLocation(request, success)

SpecLocation == InitOneByOne /\ [][NextLocation]_vars

(***************************************************************************)
(* The decoder's specification: the adapter writes whole frames, each with *)
(* the length of its body, and headers that name no length.                *)
(***************************************************************************)
DecoderBodies == { << "{", "}" >>, << "2" >> }

Frame(body) ==
  ContentLengthPrefix \o << Digits[Len(body) + 1] >> \o TWO_CRLF \o body

DecoderChunks ==
  { Frame(body) : body \in DecoderBodies } \cup { << "X" >> \o TWO_CRLF }

\* The adapter writes a chunk and the stream emits it whole.
emitsAll(chunk) == onData(chunk) /\ UNCHANGED unread

NextDecoder == \E chunk \in DecoderChunks : emitsAll(chunk)

SpecDecoder == Init /\ [][NextDecoder]_vars

(***************************************************************************)
(* The stream's specification: the adapter writes well-formed frames, one  *)
(* of them with Content-Length 0, and the readable emits what is unread in *)
(* chunks of any length: a chunk may end inside a header or a body, and    *)
(* may hold several frames.                                                *)
(***************************************************************************)
StreamBodies == DecoderBodies \cup { << >> }

\* The adapter writes one frame to its output.
adapterWrites(body) ==
  /\ readable = "open"
  /\ Len(unread) + Len(Frame(body)) <= MaxUnread
  /\ unread' = unread \o Frame(body)
  /\ UNCHANGED << sequence, pendingRequests, written, futures,
                  reverseResponses, received, serverErrors, decoderVars,
                  readable, translatorVars >>

\* The readable emits 'data' with the first n characters of what is unread.
emits(n) ==
  /\ onData(SubSeq(unread, 1, n))
  /\ unread' = SubSeq(unread, n + 1, Len(unread))

NextStream ==
  \/ \E body \in StreamBodies : adapterWrites(body)
  \/ \E n \in 1 .. Len(unread) : emits(n)

SpecStream == Init /\ [][NextStream]_vars

(***************************************************************************)
(* The specification of the terminal URIs: URIs as this instance makes     *)
(* them (uriFromInfo) and as anybody else may, with a forged token or      *)
(* none, with texts that are not JSON, and without the command parameter.  *)
(***************************************************************************)
Queries ==
  [ cwd : { "", "/home" },
    command : { "", "{\"file\":\"sh\"}", "{bad", Undefined },
    title : { "", "build" },
    key : { "k" },
    remainOnCleanExit : { "false" },
    defaultLocation : { "pane" },
    icon : { "terminal" },
    environmentVariables : { "", "[[1,2]]", "{bad" },
    preservedCommands : { "[]", "[1]" },
    initialInput : { "", "rm" },
    trustToken : { trustToken, "forged", Undefined } ]

NextUri ==
  \E query \in Queries, uriFromTrustedSource \in BOOLEAN :
    openUri(query, uriFromTrustedSource)

SpecUri == Init /\ [][NextUri]_vars

(***************************************************************************)
(* The transport's specification.                                          *)
(***************************************************************************)
NextTransport ==
  \/ \E command \in TransportCommands, args \in { None } :
       send(command, args)
  \/ \E i \in 1 .. Len(reverseResponses) : sendResponse(i)
  \/ \E rawData \in IncomingMessages : dispatch(rawData)
  \/ streamEnd

SpecTransport == Init /\ [][NextTransport]_vars

(***************************************************************************)
(* Properties of the startup sequence.                                     *)
(***************************************************************************)
StartupInFlight(command) ==
  { r \in pending : r.owner = StartupOwner /\ r.command = command }

StartupTasks == { t \in syncs : t.owner = StartupOwner }

StartupOrderState ==
  /\ \A r \in pending :
       /\ r.command = "setBreakpoints" => initializedCount >= 1
       /\ r.command \in { "launch", "attach" } => r.command = debugMode
  /\ \A path \in Paths : adapterLines[path] # None => initializedCount >= 1
  /\ StartupInFlight(debugMode) # { } =>
       /\ startup.pc = "launching"
       /\ startup.sent = << >>
       /\ { r \in pending : r.owner = StartupOwner } = StartupInFlight(debugMode)
  /\ StartupInFlight("setBreakpoints") # { } =>
       /\ startup.pc \in { "bulk", "failed" }
       /\ StartupInFlight("setExceptionBreakpoints") = { }
       /\ StartupInFlight("configurationDone") = { }
  /\ StartupInFlight("setExceptionBreakpoints") # { } =>
       /\ startup.pc = "exc"
       /\ StartupTasks = { }
       /\ { sent.path : sent \in Range(startup.sent) } =
            Range(UrlsOf(startup.commands))
       /\ StartupInFlight("configurationDone") = { }
  /\ StartupInFlight("configurationDone") # { } =>
       /\ startup.pc = "cfg"
       /\ capabilities.supportsConfigurationDoneRequest

\* A request of owner for command has been answered in this turn: in this
\* step, or in an earlier callback of the turn that this step ends, which
\* left the continuation run in the queue.
AnsweredInTurn(owner, command, run) ==
  \/ \E r \in pending \ pending' : r.owner = owner /\ r.command = command
  \/ \E i \in 1 .. Len(microtasks) :
       microtasks[i].run = run /\ microtasks[i].a[1] = owner

\* The last request of the _configDone of owner has been answered.
ConfigDoneAnswered(owner) ==
  IF capabilities.supportsConfigurationDoneRequest
  THEN AnsweredInTurn(owner, "configurationDone",
                      "configDoneAfterConfiguration")
  ELSE AnsweredInTurn(owner, "setExceptionBreakpoints",
                      "configDoneAfterFilters")

StartupOrderStep ==
  /\ \A r \in pending' \ pending :
       r.owner = StartupOwner /\ r.command = "setExceptionBreakpoints" =>
         r.arguments.filters = exceptionFilters'
  /\ ~configDoneSent /\ configDoneSent' =>
       \/ /\ ConfigDoneAnswered(StartupOwner)
          /\ startup.pc' = "done"
          /\ { r \in pending' : r.owner = StartupOwner } = { }
       \/ \E n \in 2 .. initializedCount' : ConfigDoneAnswered(RestartOwner(n))

\* C1 (as amended): the startup handler issues launch or attach, then (not
\* before the first initialized event) the setBreakpoints requests of the
\* buffered commands, then setExceptionBreakpoints with the current filters,
\* then configurationDone if supported, each only after the ones before it
\* have been answered; and configDoneSent is set either by the startup
\* handler on the answer to its last request, or by a restart re-sync.
StartupOrder == [](StartupOrderState) /\ [][StartupOrderStep]_vars

\* A startup that sent a file's breakpoints and the filters of an earlier
\* Debugger.setPauseOnExceptions, and finished with configurationDone.
StartupOrderWitness ==
  /\ startup.pc = "done"
  /\ configDoneSent
  /\ startup.sent # << >>
  /\ capabilities.supportsConfigurationDoneRequest
  /\ exceptionFilters = << "all" >>
  /\ adapterFilters = Some(<< "all" >>)

\* C1 as stated: configDoneSent is true only once the startup requests have
\* all completed.
ConfigDoneSentOnlyAfterStartup == configDoneSent => startup.pc = "done"

\* C2: the empty reply to the first Debugger.resume is emitted only after
\* the startup sequence has finished, that is, once configDoneSent is true
\* (and so after the responses to the setBreakpointByUrl commands buffered
\* before that resume, which the startup emits when it finishes).
FirstResumeReplyAfterStartup ==
  startup.resume # 0 /\ responses[startup.resume] # << >> => configDoneSent

(***************************************************************************)
(* Properties of the buffered breakpoint commands.                         *)
(***************************************************************************)
ExpectedLines(commands, url) ==
  Map(CommandsFor(commands, url), LAMBDA c : c.params.lineNumber + 1)

\* The files of the buffered commands, and those the startup has sent a
\* request for.
BulkFiles == Range(UrlsOf(buffered))

BulkSentFiles == { sent.path : sent \in Range(startup.sent) }

\* No request while the commands are buffered; at most one request for a
\* file, with the lines of the file's commands; a file of the buffer that has
\* no request yet is one whose round has not begun, whose registration with
\* the FileCache has not been followed up, or whose round has failed; and the
\* round is over only when every file has had its request.
BufferedBulkState ==
  /\ bpStage = "buffer" =>
       /\ \A path \in Paths : adapterLines[path] = None
       /\ PendingOf("setBreakpoints") = { }
       /\ startup.sent = << >>
  /\ \A i \in 1 .. Len(startup.sent) :
       /\ startup.sent[i].path \in BulkFiles
       /\ startup.sent[i].lines = ExpectedLines(buffered, startup.sent[i].path)
       /\ \A j \in 1 .. Len(startup.sent) :
            j # i => startup.sent[j].path # startup.sent[i].path
  /\ \A url \in BulkFiles \ BulkSentFiles :
       \/ startup.pc \in { "idle", "launching", "waitInit", "closing" }
       \/ /\ startup.pc = "bulk"
          /\ \E t \in syncs :
               /\ t.owner = StartupOwner /\ t.path = url
               /\ t.pc \in { "register", "registered" }
       \/ startup.pc = "failed"
  /\ startup.pc \in { "exc", "cfg", "done" } => BulkSentFiles = BulkFiles

BufferedBulkStep ==
  buffered' # buffered =>
    /\ pending' = pending
    /\ adapterLines' = adapterLines
    /\ syncs' = syncs

\* C3: a Debugger.setBreakpointByUrl that arrives before the first resume
\* causes no adapter request; the startup's bulk round then sends exactly one
\* setBreakpoints request for each distinct file of the buffered commands,
\* and its lines are the client lines + 1 of that file's commands, in the
\* order the commands arrived.
BufferedBulkRound == [](BufferedBulkState) /\ [][BufferedBulkStep]_vars

\* Two buffered commands for two lines of one file were sent as one request.
BufferedBulkRoundWitness ==
  /\ startup.pc \in { "exc", "cfg", "done" }
  /\ Len(buffered) = 2
  /\ buffered[1].params.url = buffered[2].params.url
  /\ buffered[1].params.lineNumber > buffered[2].params.lineNumber
  /\ Len(startup.sent) = 1
  /\ startup.sent[1].lines = << buffered[1].params.lineNumber + 1,
                                buffered[2].params.lineNumber + 1 >>

(***************************************************************************)
(* Properties of the stopped events.                                       *)
(***************************************************************************)
PausedFor(n) ==
  { i \in 1 .. Len(events) :
      /\ IsEvent(events[i], "Debugger.paused")
      /\ "stop" \in DOMAIN events[i]
      /\ events[i].stop = n }

Resumed == { i \in 1 .. Len(events) : IsEvent(events[i], "Debugger.resumed") }

PausedThreads ==
  { threadsById[i].id : i \in { j \in 1 .. Len(threadsById) :
                                  threadsById[j].info.state = "paused" } }

SawOwnThreadContinued(stop) ==
  \E k \in 1 .. Len(stop.seen) :
    /\ stop.seen[k].threadId # None
    /\ stop.seen[k].threadId = stop.threadId

\* The threads that this step marks paused.
MarkedPaused ==
  { id \in ThreadIds :
      /\ MapHas(threadsById', id)
      /\ MapGet(threadsById', id).state = "paused"
      /\ ~MapHas(threadsById, id) \/ MapGet(threadsById, id).state # "paused" }

\* The stops whose subscriber runs in this step.
Observed ==
  { n \in 1 .. Len(stops') :
      /\ stops'[n].status = "done"
      /\ n > Len(stops) \/ stops[n].status = "fetching" }

\* A thread is marked paused only on account of a stop whose subscriber runs
\* in the step and which expanded that thread, and a stop that has been
\* ended stays so.
PausedOnAccountOfStop ==
  /\ \A id \in MarkedPaused :
       \E n \in Observed : id \in Range(stops'[n].ids)
  /\ \A n \in 1 .. Len(stops) :
       stops[n].status = "cancelled" => stops'[n].status = "cancelled"

SameThreadContinuedEnds ==
  \A n \in 1 .. Len(stops) :
    /\ SawOwnThreadContinued(stops[n]) => stops[n].status = "cancelled"
    /\ stops[n].status = "cancelled" => PausedFor(n) = { }

\* C5: a continued event for thread T that arrives while a stop with
\* threadId T is fetching ends that stop: no Debugger.paused is sent for it,
\* and the threads that are marked paused are those of stops that were not
\* ended.
SameThreadContinuedCancels ==
  [](SameThreadContinuedEnds) /\ [][PausedOnAccountOfStop]_vars

\* The stop of thread T was ended by continued(T) while it was fetching;
\* its requests have been answered since, and a second stop of T has paused
\* the thread.
SameThreadContinuedCancelsWitness ==
  /\ Len(stops) = 2
  /\ stops[1].status = "cancelled"
  /\ stops[1].ids # << >>
  /\ SawOwnThreadContinued(stops[1])
  /\ pending = { }
  /\ PausedFor(1) = { }
  /\ stops[2].status = "done"
  /\ stops[2].threadId = stops[1].threadId
  /\ stops[2].threadId[1] \in PausedThreads

\* The continued handler's reading of "all threads".
AffectsAllThreads(body) ==
  \/ body.allThreadsContinued
  \/ body.threadId = None
  \/ body.threadId[1] < 0

\* C6: a stop that saw an all-threads continued event (allThreadsContinued,
\* or threadId unset or negative) during its fetches never reaches its
\* subscriber, which is what sends Debugger.paused and marks threads paused.
AllThreadsContinuedCancels ==
  \A n \in 1 .. Len(stops) :
    (\E k \in 1 .. Len(stops[n].seen) : AffectsAllThreads(stops[n].seen[k]))
      => stops[n].status # "done"

\* C7: after stopped{threadId A, allThreadsStopped} has expanded A and X,
\* continued{threadId X} has arrived during the fetches, and both are done
\* with, the client has one Debugger.paused (for A) and one
\* Debugger.resumed, and X is running.
ContinuedOtherThreadOutcome ==
  LET stop == stops[1]
      body == stop.seen[1]
  IN ( /\ Len(stops) = 1
       /\ eventCount.continued = 1
       /\ nextId = 1
       /\ stop.status = "done"
       /\ stop.threadId # None
       /\ Len(stop.ids) >= 2
       /\ Len(stop.seen) = 1
       /\ ~body.allThreadsContinued
       /\ body.threadId # None
       /\ body.threadId # stop.threadId
       /\ body.threadId[1] \in Range(stop.ids) )
     => /\ Cardinality(PausedFor(1)) = 1
        /\ \A i \in PausedFor(1) :
             events[i].params.stopThreadId = stop.threadId[1]
        /\ Cardinality(Resumed) = 1
        /\ body.threadId[1] \notin PausedThreads

(***************************************************************************)
(* Properties of the exception filters.                                    *)
(***************************************************************************)
FiltersOfState(state) ==
  CASE state = "none" -> << >>
    [] state = "uncaught" -> << "uncaught" >>
    [] state = "all" -> << "all" >>

\* C8: once a Debugger.setPauseOnExceptions has arrived with configDoneSent
\* true, exceptionFilters is the mapping of the last command's state, and
\* the last setExceptionBreakpoints request sent to the adapter carries
\* those filters, whichever older requests are still in flight.
LatestFiltersWin ==
  switchLatest.exc.id # 0 /\ switchLatest.exc.awaits =>
    /\ exceptionFilters = FiltersOfState(switchLatest.exc.state)
    /\ adapterFilters = Some(FiltersOfState(switchLatest.exc.state))

\* A newer command has arrived and been answered by the adapter while an
\* older one's request, with other filters, is still in flight.
LatestFiltersWinWitness ==
  /\ switchLatest.exc.awaits
  /\ responses[switchLatest.exc.id] # << >>
  /\ \E r \in PendingOf("setExceptionBreakpoints") :
       /\ r.owner[1] = "exc"
       /\ r.owner[2] < switchLatest.exc.id
       /\ r.arguments.filters # FiltersOfState(switchLatest.exc.state)

(***************************************************************************)
(* Properties of the breakpoint ledger.                                    *)
(***************************************************************************)
\* C9: the ledger holds at most one record for a path and line.
OneRecordPerLine ==
  \A i, j \in 1 .. Len(breakpoints) :
    /\ breakpoints[i].path = breakpoints[j].path
    /\ breakpoints[i].lineNumber = breakpoints[j].lineNumber
    => i = j

\* C10: a step that completes a successful setBreakpoints round trip for a
\* file, with no other sync of that file left in flight, leaves every ledger
\* record of that file with an id.
SyncedFileHasIds ==
  [][ \A request \in PendingOf("setBreakpoints") :
        \A response \in SetBreakpointsResponses(request.arguments) :
          ( /\ response.success
            /\ Len(response.breakpoints) = Len(request.arguments.lines)
            /\ RespSetBreakpoints(request, response)
            /\ \A t \in syncs' : t.path # request.arguments.source.path \/ t.pc = "ok" )
          => \A i \in 1 .. Len(breakpoints') :
               breakpoints'[i].path = request.arguments.source.path
                 => breakpoints'[i].breakpointId # Null ]_vars

LedgerLines(path) ==
  Map(getBreakpointsForFilePath(breakpoints, path), LAMBDA bp : bp.lineNumber)

\* C11: once a file has been synced and no breakpoint handler is in flight,
\* the lines of the last setBreakpoints request sent for the file are the
\* lines of the file's ledger records, in the ledger's order.
LastRequestHasLedgerLines ==
  \A path \in Paths :
    ( /\ adapterLines[path] # None
      /\ syncs = { }
      /\ PendingOf("setBreakpoints") = { } )
    => adapterLines[path][1] = LedgerLines(path)

\* C12: a ledger record that is resolved stays resolved for as long as it is
\* in the ledger, whatever response or event arrives and whatever re-sync
\* is answered.
ResolvedStaysResolved ==
  [][ \A i \in 1 .. Len(breakpoints), j \in 1 .. Len(breakpoints') :
        breakpoints[i].uid = breakpoints'[j].uid /\ breakpoints[i].resolved
          => breakpoints'[j].resolved ]_vars

\* The startup resolved the record and moved it; the adapter restarted, and
\* the re-sync asked for the record at its new line, was answered
\* (unverified, as every re-sync here is) and went on to the exception
\* filters: the record is still resolved.
ResolvedStaysResolvedWitness ==
  /\ ~disposed
  /\ Len(breakpoints) = 1
  /\ breakpoints[1].resolved
  /\ breakpoints[1].lineNumber = MovedLine
  /\ Len(startup.sent) = 1
  /\ startup.sent[1].lines # << MovedLine >>
  /\ adapterLines["a"] = Some(<< MovedLine >>)
  /\ PendingOf("setBreakpoints") = { }
  /\ syncs = { }
  /\ \E r \in PendingOf("setExceptionBreakpoints") : r.owner[1] = "restart"

(***************************************************************************)
(* Properties of the transport.                                            *)
(***************************************************************************)
\* C13: the frames written to the adapter, requests and responses alike,
\* carry the seq values 1, 2, 3, ... in the order they are written.
WrittenSeqsDense ==
  /\ \A i \in 1 .. Len(written) : written[i].seq = i
  /\ sequence = Len(written) + 1

\* A request, a response and another request have been written.
WrittenSeqsDenseWitness ==
  /\ Len(written) >= 3
  /\ \E i \in 1 .. Len(written) - 2 :
       /\ written[i].type = "request"
       /\ written[i + 1].type = "response"
       /\ written[i + 2].type = "request"

RequestSeqs ==
  { written[i].seq : i \in { j \in 1 .. Len(written) :
                                written[j].type = "request" } }

PendingTableState ==
  /\ pendingRequests = { s \in 1 .. MaxWrites : futures[s].state = "pending" }
  /\ pendingRequests \subseteq RequestSeqs
  /\ \A s \in 1 .. MaxWrites :
       /\ futures[s].state # "none" <=> s \in RequestSeqs
       /\ futures[s].calls <= 1
       /\ futures[s].calls = 1 <=> futures[s].state \in { "resolved", "rejected" }

PendingTableStep ==
  \A rawData \in IncomingMessages :
    received' = Append(received, rawData) /\ rawData.type = "response" =>
      LET s == rawData.request_seq[1]
      IN IF s \in pendingRequests
         THEN /\ pendingRequests' = pendingRequests \ { s }
              /\ futures'[s].state =
                   IF rawData.success THEN "resolved" ELSE "rejected"
              /\ \A t \in 1 .. MaxWrites : t # s => futures'[t] = futures[t]
         ELSE /\ pendingRequests' = pendingRequests
              /\ futures' = futures

\* C14: the first response with request_seq S settles the future of the
\* request sent with seq S (resolved on success, rejected otherwise) and
\* takes S out of the pending table; a response for a seq that is not
\* pending settles nothing.  So a callback is called at most once, and the
\* table holds the seqs of the requests sent and not yet answered.
PendingTableExact == [](PendingTableState) /\ [][PendingTableStep]_vars

\* The request with seq 1 was resolved by its first response; a second,
\* failing response for it and a response for a seq never sent came later.
PendingTableExactWitness ==
  /\ Len(received) = 3
  /\ received[1].type = "response" /\ received[1].request_seq = Some(1)
  /\ received[1].success
  /\ received[2].type = "response" /\ received[2].request_seq = Some(1)
  /\ ~received[2].success
  /\ received[3].type = "response" /\ received[3].request_seq # Some(1)
  /\ futures[received[3].request_seq[1]].state = "none"
  /\ futures[1] = [ state |-> "resolved", calls |-> 1 ]
  /\ pendingRequests # { }

(***************************************************************************)
(* Properties of the active paused thread.                                 *)
(***************************************************************************)
\* C15: pausedThreadIdPrevious is set if and only if at least two distinct
\* threads have been the active paused thread; one thread activated and
\* later cleared leaves it unset.
PreviousIffTwoActivated ==
  pausedThreadIdPrevious # None <=> Cardinality(activated) >= 2

(***************************************************************************)
(* Properties of the line and column conversions.                          *)
(***************************************************************************)
\* The location the client is shown for a frame at the adapter's line and
\* column.
ClientLocationOf(path, line, column) ==
  TranslateFrame([ id |-> 1, name |-> "f", line |-> line, column |-> column,
                   source |-> Some([ path |-> path ]) ], << >>).location

\* C16: what the translator sends to the adapter for a client line or
\* column converts back to the client's value: the line of a breakpoint
\* record made for Debugger.setBreakpointByUrl, and the line and column of
\* the request of the current Debugger.continueToLocation.
ConversionsRoundTrip ==
  /\ \A x \in ClientLines :
       LET bp == NewTranslatorBp(1, "a",
                   Command(1, "Debugger.setBreakpointByUrl",
                           [ url |-> "a", lineNumber |-> x, condition |-> Null ]))
       IN SetBreakpointResult(<< bp >>, SharedItem(bp), Command(1, "", << >>))
            .result.locations[1].lineNumber = x
  /\ \A r \in PendingOf("continueToLocation") :
       r.owner[2] = switchLatest.location.id =>
         LET client == switchLatest.location.location
             back == ClientLocationOf(r.arguments.source.path,
                                      r.arguments.line, r.arguments.column)
         IN /\ back.lineNumber = client.lineNumber
            /\ client.columnNumber # None =>
                 back.columnNumber = client.columnNumber[1]

(***************************************************************************)
(* Properties of the result of Debugger.setBreakpointByUrl.                *)
(***************************************************************************)
\* The results of Debugger.setBreakpointByUrl commands that the translator
\* holds or has sent.
ComputedResults ==
  UNION { Range(t.result) : t \in syncs }
  \cup Range(startup.results)
  \cup UNION { Range(responses[id]) : id \in DOMAIN responses }

\* The task that awaits a setBreakpoints request.
TaskOf(request) ==
  CHOOSE t \in syncs : /\ t.owner = request.owner
                       /\ t.path = request.arguments.source.path
                       /\ t.pc = "request"

\* The ledger record a breakpoint event is about: the first the find()
\* accepts.
ExistingBreakpointAt(breakpoint) ==
  CHOOSE i \in FoundRecords(breakpoint) :
    \A j \in FoundRecords(breakpoint) : i <= j

\* The verified breakpoint events about the record with uid that this step
\* may have brought: it has told the client of the breakpoint's resolution,
\* at the place where the event leaves the record.
EventsAbout(uid) ==
  { breakpoint \in BreakpointEvents :
      /\ breakpoint.verified
      /\ FoundRecords(breakpoint) # { }
      /\ breakpoints[ExistingBreakpointAt(breakpoint)].uid = uid
      /\ \E k \in Len(events) + 1 .. Len(events') :
           /\ IsEvent(events'[k], "Debugger.breakpointResolved")
           /\ events'[k].params.breakpointId = BpIdOf(breakpoint)
           /\ events'[k].params.location =
                nuclideDebuggerLocation(
                  "a",
                  tryUpdateBreakpoint(
                    breakpoints[ExistingBreakpointAt(breakpoint)],
                    breakpoint).lineNumber - 1, 0) }

\* The record of item as the task finds it when it goes on in this step:
\* as it was before the step or, when the step is a verified breakpoint
\* event about the record, as the event's subscriber leaves it.
RecordAtAnswer(item) ==
  LET live == Live(breakpoints, item)
      about == EventsAbout(live.uid)
  IN IF eventCount'.breakpoint = eventCount.breakpoint THEN live
     ELSE IF about = { } THEN live
     ELSE tryUpdateBreakpoint(live, CHOOSE breakpoint \in about : TRUE)

\* The setBreakpoints requests whose answer has arrived in this turn, and
\* whose task has not gone on yet.
AnsweredRequests ==
  { microtasks[k].a[1] :
      k \in { j \in 1 .. Len(microtasks) :
                microtasks[j].run = "syncBreakpointsForFilePath" } }

\* The task that awaits request goes on with response in this step: the
\* step ends the turn, and the response has arrived in it, with this step
\* or with an earlier callback.
GoesOnWith(request, response) ==
  /\ turn' = Null
  /\ \/ /\ request \in pending \ pending'
        /\ RespSetBreakpoints(request, response)
     \/ \E k \in 1 .. Len(microtasks) :
          /\ microtasks[k].run = "syncBreakpointsForFilePath"
          /\ microtasks[k].a = << request, response >>

\* In the steps in which the task of a setBreakpoints request goes on with
\* a successful response, and which do not end the session, the translator
\* has computed Result(task, response, i, record) for each command i of the
\* task, where record is the command's record as the task finds it.
AnswerSteps(Result(_, _, _, _)) ==
  turn' = Null /\ ~disposed' =>
    \A request \in (PendingOf("setBreakpoints") \ pending') \cup AnsweredRequests :
      LET t == TaskOf(request)
          found == [ i \in 1 .. Len(t.commands) |-> RecordAtAnswer(t.items[i]) ]
          computed == ComputedResults'
      IN ~t.detached /\ t.commands # << >> =>
           \A response \in SetBreakpointsResponsesMoved(request.arguments) :
             \/ ~response.success
             \/ \A i \in 1 .. Len(t.commands) :
                  Result(t, response, i, found[i]) \in computed
             \/ ~GoesOnWith(request, response)

\* C17, as stated: the result of a successful Debugger.setBreakpointByUrl
\* has the id of the command's own record, the location (path, L - 1, 0)
\* where L is the line of the adapter's response for the record, or the
\* requested line + 1 when the response has none, and resolved equal to the
\* verified flag of the response.
ResultIsAnswer ==
  [][ AnswerSteps(LAMBDA t, response, i, before :
        LET vs == response.breakpoints[i]
            own == Live(breakpoints', t.items[i])
            L == IF vs.line # None THEN vs.line[1]
                 ELSE t.commands[i].params.lineNumber + 1
        IN [ id |-> t.commands[i].id,
             result |-> [ breakpointId |-> own.breakpointId,
                          locations |-> << nuclideDebuggerLocation(
                                             t.path, L - 1, 0) >>,
                          resolved |-> vs.verified ] ]) ]_vars

\* C17, amended: the result is read from the command's own record once the
\* response has been applied to it: L is the line of the response, or the
\* record's line when the response has none, and resolved is true exactly
\* when the response is verified or the record was resolved when the
\* response was applied.
ResultIsRecordAfterAnswer ==
  [][ AnswerSteps(LAMBDA t, response, i, before :
        LET vs == response.breakpoints[i]
            own == Live(breakpoints', t.items[i])
            L == IF vs.line # None THEN vs.line[1] ELSE before.lineNumber
        IN [ id |-> t.commands[i].id,
             result |-> [ breakpointId |-> own.breakpointId,
                          locations |-> << nuclideDebuggerLocation(
                                             t.path, L - 1, 0) >>,
                          resolved |-> before.resolved \/ vs.verified ] ]) ]_vars

\* A command whose record a verified breakpoint event had resolved while
\* the record had no id yet was answered as resolved, at the line the
\* adapter moved it to.
ResultIsRecordAfterAnswerWitness ==
  \E id \in DOMAIN responses :
    /\ Len(events) >= 1
    /\ IsEvent(events[1], "Debugger.breakpointResolved")
    /\ events[1].params.breakpointId = "-1"
    /\ Len(responses[id]) = 1
    /\ ~IsError(responses[id][1])
    /\ "resolved" \in DOMAIN responses[id][1].result
    /\ responses[id][1].result.resolved
    /\ responses[id][1].result.locations[1].lineNumber = MovedLine - 1
    /\ \E i \in 1 .. Len(breakpoints) :
         /\ breakpoints[i].breakpointId = responses[id][1].result.breakpointId
         /\ breakpoints[i].resolved

(***************************************************************************)
(* Properties of the breakpoint events.                                    *)
(***************************************************************************)
\* C18: a breakpoint event that matches a ledger record and carries a hit
\* count different from the record's sets the record's hit count and sends
\* Debugger.breakpointHitCountChanged with it, verified or not.
HitCountAlwaysTaken ==
  [][ \A breakpoint \in BreakpointEvents :
        ( /\ EvBreakpoint(breakpoint)
          /\ FoundRecords(breakpoint) # { }
          /\ breakpoint.nuclide_hitCount # None
          /\ breakpoints[ExistingBreakpointAt(breakpoint)].hitCount
               # breakpoint.nuclide_hitCount[1] )
        => /\ breakpoints'[ExistingBreakpointAt(breakpoint)].hitCount
                = breakpoint.nuclide_hitCount[1]
           /\ Len(events') = Len(events) + 1
           /\ IsEvent(events'[Len(events')], "Debugger.breakpointHitCountChanged")
           /\ events'[Len(events')].params.hitCount
                = breakpoint.nuclide_hitCount[1] ]_vars


\* C19: Debugger.breakpointResolved is sent for a breakpoint event only if
\* the event is verified and the record it matches was not resolved before,
\* so that a record is announced as resolved at most once.
ResolvedAnnouncedOnce ==
  [][ \A breakpoint \in BreakpointEvents :
        ( /\ EvBreakpoint(breakpoint)
          /\ Len(events') = Len(events) + 1
          /\ IsEvent(events'[Len(events')], "Debugger.breakpointResolved") )
        => /\ breakpoint.verified
           /\ ~breakpoints[ExistingBreakpointAt(breakpoint)].resolved ]_vars

(***************************************************************************)
(* Properties of the restarts.                                             *)
(***************************************************************************)
\* The requests a step has sent.
NewRequests == pending' \ pending

\* The requests of the re-sync that the n-th initialized event started.
RestartRequests(n, command) ==
  { r \in PendingOf(command) : r.owner = RestartOwner(n) }

FilesOfLedger == { breakpoints[i].path : i \in 1 .. Len(breakpoints) }

\* The setExceptionBreakpoints request of the re-sync n, with the filters
\* of the time it is sent.
RestartFiltersRequest(n) ==
  Request("setExceptionBreakpoints", RestartOwner(n),
          [ filters |-> exceptionFilters ])

\* The handler that a queued job belongs to.
JobOwner(job) ==
  IF job.run = "syncBreakpointsForFilePath" THEN job.a[1].owner
  ELSE IF job.run \in { "configDone", "configDoneAfterFilters",
                        "configDoneAfterConfiguration", "configDoneReturned",
                        "HandlerThrew" }
  THEN job.a[1]
  ELSE << "other", 0 >>

\* The jobs of the re-sync n that a callback of this turn has left queued.
RestartJobs(n, run) ==
  { microtasks[k] : k \in { i \in 1 .. Len(microtasks) :
                              /\ microtasks[i].run = run
                              /\ JobOwner(microtasks[i]) = RestartOwner(n) } }

\* What the re-sync n has pending after the step.
RestartPendingAfter(n) == { r \in pending' : r.owner = RestartOwner(n) }

\* The tasks of the re-sync n.
RestartTasks(n) == { t \in syncs : t.owner = RestartOwner(n) }

\* An initialized event after the first sends one setBreakpoints request
\* for every file of the ledger and nothing else; with an empty ledger it
\* goes on to _configDone in the next job, which sends
\* setExceptionBreakpoints when the turn ends.  The first one starts no
\* re-sync.
RestartStarts ==
  initializedCount' = initializedCount + 1 =>
    LET n == initializedCount'
        filters == Request("setExceptionBreakpoints", RestartOwner(n),
                           [ filters |-> exceptionFilters' ])
    IN IF n = 1
       THEN /\ \A r \in pending' : r.owner[1] # "restart"
            /\ \A i \in 1 .. Len(microtasks') :
                 JobOwner(microtasks'[i])[1] # "restart"
       ELSE IF disposed' THEN TRUE
       ELSE IF FilesOfLedger = { }
       THEN IF turn' = Null
            THEN RestartPendingAfter(n) = { filters }
            ELSE /\ RestartPendingAfter(n) = { }
                 /\ \E i \in 1 .. Len(microtasks') :
                      /\ microtasks'[i].run = "configDone"
                      /\ microtasks'[i].a[1] = RestartOwner(n)
       ELSE /\ \A r \in RestartPendingAfter(n) :
                 /\ r.command = "setBreakpoints"
                 /\ r.arguments.source.path \in FilesOfLedger
            /\ \A path \in FilesOfLedger :
                 Cardinality({ r \in RestartPendingAfter(n) :
                                 r.arguments.source.path = path }) = 1

\* A setBreakpoints response that lets a re-sync go on.
AsAsked(request, response) ==
  /\ response.success
  /\ Len(response.breakpoints) = Len(request.arguments.lines)

\* The re-sync n has the last of its setBreakpoints requests answered in
\* the turn that this step ends, all of them as asked: by the callback of
\* this step, or by earlier callbacks of the turn, whose continuations are
\* still queued.
RestartSyncCompletes(n) ==
  /\ turn' = Null
  /\ ~disposed'
  /\ RestartTasks(n) # { }
  /\ \A t \in RestartTasks(n) : ~t.detached
  /\ \A t \in syncs' : t.owner # RestartOwner(n)
  /\ \A job \in RestartJobs(n, "syncBreakpointsForFilePath") :
       AsAsked(job.a[1], job.a[2])
  /\ \A request \in RestartRequests(n, "setBreakpoints") \ pending' :
       \E response \in SetBreakpointsResponsesNumbered(request.arguments) :
         /\ AsAsked(request, response)
         /\ RespSetBreakpoints(request, response)

\* When the last setBreakpoints request of a re-sync has been answered, all
\* of them as asked, setExceptionBreakpoints is sent with the current
\* filters; and a re-sync sends it at no other time.
RestartSendsFilters ==
  /\ \A n \in 2 .. initializedCount :
       RestartSyncCompletes(n) =>
         Request("setExceptionBreakpoints", RestartOwner(n),
                 [ filters |-> exceptionFilters' ]) \in pending'
  /\ \A r \in NewRequests :
       (r.command = "setExceptionBreakpoints" /\ r.owner[1] = "restart")
         => /\ r.arguments = [ filters |-> exceptionFilters' ]
            /\ RestartRequests(r.owner[2], "setBreakpoints")' = { }
            /\ \A t \in syncs' : t.owner # r.owner
            /\ \/ /\ initializedCount' = r.owner[2]
                  /\ initializedCount = r.owner[2] - 1
                  /\ FilesOfLedger = { }
               \/ RestartJobs(r.owner[2], "configDone") # { }
               \/ RestartTasks(r.owner[2]) # { }

\* The setExceptionBreakpoints request of the re-sync n has been answered
\* with success in the turn that this step ends.
RestartFiltersAnswered(n) ==
  /\ turn' = Null
  /\ ~disposed'
  /\ \/ [ run |-> "configDoneAfterFilters",
          a |-> << RestartOwner(n), TRUE >> ]
          \in { [ run |-> job.run, a |-> job.a ] :
                  job \in RestartJobs(n, "configDoneAfterFilters") }
     \/ \E request \in RestartRequests(n, "setExceptionBreakpoints") \ pending' :
          RespSetExceptionBreakpoints(request, TRUE)

\* When the setExceptionBreakpoints request of a re-sync has been answered,
\* configurationDone is sent if the adapter supports it, and otherwise the
\* re-sync is over; and a re-sync sends configurationDone at no other time.
RestartSendsConfigurationDone ==
  /\ \A n \in 2 .. initializedCount :
       RestartFiltersAnswered(n) =>
         IF capabilities.supportsConfigurationDoneRequest
         THEN Request("configurationDone", RestartOwner(n), << >>)
                \in NewRequests
         ELSE RestartPendingAfter(n) = { } /\ configDoneSent'
  /\ \A r \in NewRequests :
       (r.command = "configurationDone" /\ r.owner[1] = "restart")
         => /\ capabilities.supportsConfigurationDoneRequest
            /\ AnsweredInTurn(r.owner, "setExceptionBreakpoints",
                              "configDoneAfterFilters")
            /\ RestartRequests(r.owner[2], "setExceptionBreakpoints")' = { }

\* A step that runs nothing but re-syncs: its callback is a later
\* initialized event or the answer to a request of a re-sync, or it runs
\* the jobs of an open turn; and every job that the turn has left queued
\* is a job of a re-sync.
RestartStep ==
  /\ \A i \in 1 .. Len(microtasks) : JobOwner(microtasks[i])[1] = "restart"
  /\ \/ initializedCount >= 1 /\ initializedCount' = initializedCount + 1
     \/ /\ pending \ pending' # { }
        /\ \A r \in pending \ pending' : r.owner[1] = "restart"
     \/ microtasks # << >> /\ turn' = Null /\ pending \ pending' = { }

\* C20: every initialized event after the first starts a re-sync, which
\* sends setBreakpoints for each file of the ledger, then, when all of them
\* have been answered, setExceptionBreakpoints with the current filters,
\* then configurationDone if supported; the first initialized event starts
\* none; and no step of a re-sync sends the client an event or a response.
RestartResyncs ==
  [][ /\ RestartStarts
      /\ RestartSendsFilters
      /\ RestartSendsConfigurationDone
      /\ RestartStep => /\ responses' = responses
                        /\ events' = events
                        /\ threadsUpdated' = threadsUpdated ]_vars


\* The re-sync of the third initialized event, with records of both files
\* in the ledger, has come to its configurationDone request, and the client
\* has been sent no event.
RestartResyncsWitness ==
  /\ initializedCount = MaxRestartInitialized
  /\ FilesOfLedger = Paths
  /\ RestartRequests(MaxRestartInitialized, "configurationDone") # { }
  /\ events = << >>

(***************************************************************************)
(* Properties of the command router's error handling.                      *)
(***************************************************************************)
\* The calls that the handler of command id still awaits.
AwaitedBy(id) ==
  { r \in pending : r.owner[1] \in { "caught", "eval", "stack" } /\ r.owner[2] = id }

\* A step in which a call awaited by the handler of command id has failed.
CallFailed(id) ==
  \E request \in AwaitedBy(id) :
    \/ RespCaught(request, FALSE)
    \/ RespEvaluate(request, FALSE)
    \/ RespStackTrace(request, FALSE)
    \/ FetchesOf(Now, request.owner) # { } /\ RegisterFrameDone(request, FALSE)

\* C21: a command whose handler's call fails is answered with {id, error},
\* a command of an unknown method with the error 'Unknown command:
\* <method>', and the router goes on answering: every command whose handler
\* awaits nothing has been answered once.
CommandErrorsAnswered ==
  /\ [](\A id \in 1 .. nextId - 1 :
          AwaitedBy(id) = { } => Len(responses[id]) = 1)
  /\ [][ /\ \A id \in 1 .. MaxCommands :
              CallFailed(id) =>
                /\ Len(responses'[id]) = 1
                /\ IsError(responses'[id][1])
         /\ CmdUnhandled("Debugger.unknown") =>
              responses'[nextId] =
                << getErrorResponse(nextId, "Unknown command: Debugger.unknown") >> ]_vars

\* The requests that the wrapped handler of command id still awaits.
AwaitedByWrapped(id) ==
  { r \in pending :
      /\ r.owner[1] \in { "pause", "step", "completions", "properties" }
      /\ r.owner[2] = id }

\* The part of it that the wrapped handlers keep: a step, Debugger.pause,
\* completions or properties command whose request fails is answered with
\* the error, and every such command whose handler awaits nothing has been
\* answered once.
WrappedCommandsAnswered ==
  /\ [](\A id \in 1 .. nextId - 1 :
          AwaitedByWrapped(id) = { } => Len(responses[id]) = 1)
  /\ [][ \A id \in 1 .. MaxCommands :
           (\E request \in AwaitedByWrapped(id) :
              \/ RespAcknowledged(request, FALSE)
              \/ RespCompletions(request, FALSE)
              \/ RespVariables(request, FALSE))
           => responses'[id] = << getErrorResponse(id, "AdapterError") >> ]_vars

\* The router's subscription has not ended in an error.
RouterAlive == ~routerErrored


(***************************************************************************)
(* Properties of a failed launch or attach.                                *)
(***************************************************************************)
\* _terminateSessionWithError has reported the failure of _startDebugging.
LaunchFailed ==
  \E i \in DOMAIN notifications :
    notifications[i] = [ level |-> "error",
                         message |-> "Failed to " \o debugMode \o " the debugger!" ]

\* A step in which the launch or attach request is answered with a failure.
LaunchFails == \E request \in pending : RespLaunch(request, FALSE)

\* The requests of the startup that are out, and the flag of the last one.
StartupRequestsSent ==
  << { request \in pending :
         request.command \in { "setBreakpoints", "setExceptionBreakpoints",
                               "configurationDone" } },
     adapterFilters, adapterLines, configDoneSent >>

\* The failure of the launch or attach request has reached the session, and
\* _startDebugging, which awaits the request, has not gone on yet.
LaunchFailureQueued ==
  \E i \in 1 .. Len(microtasks) :
    microtasks[i].run = "startDebugging" /\ microtasks[i].a = << FALSE >>

\* The failure is reported when _startDebugging goes on, at the latest when
\* the callback that brought the response has returned; once it is
\* reported, no request of the startup is sent and the flag keeps its value.
LaunchFailureStep ==
  /\ LaunchFails => ~LaunchFailed /\ (LaunchFailed' \/ LaunchFailureQueued')
  /\ LaunchFailureQueued /\ ~LaunchFailureQueued' => LaunchFailed'
  /\ LaunchFailed => StartupRequestsSent' = StartupRequestsSent

StreamEndFailsPending ==
  readable = "ended" =>
    /\ pendingRequests = { }
    /\ \A seq \in DOMAIN futures : futures[seq].state # "pending"

(***************************************************************************)
(* Properties of a setBreakpoints response of the wrong length.            *)
(***************************************************************************)
\* The task of _syncBreakpointsForFilePath that awaits the request.
SyncOf(request) ==
  CHOOSE t \in syncs : /\ t.owner = request.owner
                       /\ t.path = request.arguments.source.path
                       /\ t.pc = "request"

\* The error message of a response with got breakpoints for wanted lines.
MismatchMessage(got, wanted) ==
  "Failed to set breakpoints - count mismatch! "
    \o ToString(got) \o " vs. " \o ToString(wanted)

\* A step that takes a response of the wrong length to the request.
MismatchStep(request, response) ==
  /\ response.success
  /\ Len(response.breakpoints) # Len(request.arguments.lines)
  /\ RespSetBreakpoints(request, response)

\* The commands of the request's group are answered with the mismatch.
GroupGetsMismatch(request, response) ==
  \A i \in DOMAIN SyncOf(request).commands :
    LET id == SyncOf(request).commands[i].id
    IN responses'[id] =
         << getErrorResponse(id,
              MismatchMessage(Len(response.breakpoints),
                              Len(request.arguments.lines))) >>

\* C24 as stated: a setBreakpoints response whose breakpoints array has
\* another length than the request's assigns no id and updates no record,
\* and every command of the file's group is answered with the
\* count-mismatch error.
CountMismatchFailsGroup ==
  [][ \A request \in PendingOf("setBreakpoints") :
        \A response \in SetBreakpointsResponses(request.arguments) :
          MismatchStep(request, response) =>
            /\ UNCHANGED ledgerVars
            /\ GroupGetsMismatch(request, response) ]_vars

\* What the code keeps: such a response assigns no id and updates no record; the
\* commands of the file's group are answered with the count-mismatch error
\* unless the batch has already failed on another file, and then they keep
\* the error response of that failure.
CountMismatchFailsBatch ==
  [][ \A request \in PendingOf("setBreakpoints") :
        \A response \in SetBreakpointsResponses(request.arguments) :
          MismatchStep(request, response) =>
            /\ UNCHANGED ledgerVars
            /\ IF SyncOf(request).detached
               THEN /\ responses' = responses
                    /\ \A i \in DOMAIN SyncOf(request).commands :
                         LET id == SyncOf(request).commands[i].id
                         IN /\ Len(responses[id]) = 1
                            /\ IsError(responses[id][1])
               ELSE GroupGetsMismatch(request, response) ]_vars

\* Two commands of one file have been answered with the error of a response
\* that held one breakpoint for their two lines.
CountMismatchFailsBatchWitness ==
  \E id \in 1 .. MaxCommands - 1 :
    \A answered \in { id, id + 1 } :
      responses[answered] =
        << getErrorResponse(answered, MismatchMessage(1, 2)) >>

(***************************************************************************)
(* Properties of the stacks kept with the threads.                         *)
(***************************************************************************)
\* The call frames a fetch without a levels limit can give for a thread.
FullFetches(threadId) ==
  { << >> } \cup
  { [ k \in 1 .. Len(StackOf(threadId)) |->
        TranslateFrame(StackOf(threadId)[k],
                       TranslatedScopes(StackOf(threadId)[k].id, answered[k])) ] :
      answered \in [ 1 .. Len(StackOf(threadId)) -> BOOLEAN ] }

\* C25: a thread whose callStackLoaded flag is set holds call frames that
\* were fetched without a levels limit, whatever has moved the active
\* paused thread while the fetches of a stop were in flight.
LoadedStacksAreFull ==
  \A i \in 1 .. Len(threadsById) :
    threadsById[i].info.callStackLoaded =>
      /\ threadsById[i].info.callFrames # None
      /\ threadsById[i].info.callFrames[1] \in FullFetches(threadsById[i].id)

\* C26: of the stackTrace requests that a stopped event sends, the one for
\* the active paused thread carries no levels limit, and the one for any
\* other thread carries levels = 1 if the adapter supports delayed stack
\* trace loading and no limit if it does not.
ActiveThreadFetchedInFull ==
  [][ \A threadId \in StopThreadIds, allThreadsStopped \in BOOLEAN,
         reason \in StopReasons :
        EvStopped(threadId, allThreadsStopped, reason) =>
          \A request \in pending' \ pending :
            request.arguments.levels =
              IF \/ pausedThreadId' = Some(request.arguments.threadId)
                 \/ ~capabilities.supportsDelayedStackTraceLoading
              THEN None ELSE Some(1) ]_vars

(***************************************************************************)
(* Properties of the breakpoint ids.                                       *)
(***************************************************************************)
\* C27: no two records of the ledger carry the same breakpoint id, whether
\* the adapter gave the id or the translator made it up.
LedgerIdsDistinct ==
  \A i, j \in 1 .. Len(breakpoints) :
    /\ i # j
    /\ breakpoints[i].breakpointId # Null
    => breakpoints[i].breakpointId # breakpoints[j].breakpointId

(***************************************************************************)
(* Properties of the decoder.                                              *)
(***************************************************************************)
\* The decoder has stopped at a header terminator whose header names no
\* length.
HeaderWithoutLength ==
  contentLength = -1 /\ IndexOf(rawDataBuffer, TWO_CRLF) # -1

\* C28: a header terminator without a valid Content-Length is reported to
\* onServerError, and no frame is decoded at a wrong place or with a wrong
\* length: every text handed to _dispatch is the body of a frame.
MalformedHeaderReported ==
  /\ [](\A i \in 1 .. Len(received) : received[i].text \in DecoderBodies)
  /\ [][ \A chunk \in DecoderChunks :
           onData(chunk) /\ HeaderWithoutLength' =>
             serverErrors' > serverErrors ]_vars

(***************************************************************************)
(* Properties of Debugger.enable.                                          *)
(***************************************************************************)
\* The synthetic initial-break pauses the client has been sent.
InitialBreaks ==
  { i \in 1 .. Len(events) : events[i] = getFakeLoaderPauseEvent }

\* C29: the first Debugger.enable is answered with the empty result and the
\* synthetic initial-break pause right after it; a later Debugger.enable is
\* answered without another pause, so the client is sent at most one.
InitialBreakOnce ==
  /\ [](Cardinality(InitialBreaks) <= 1)
  /\ [][ CmdEnable =>
           /\ responses'[nextId] = << getEmptyResponse(nextId) >>
           /\ events' = IF InitialBreaks = { }
                        THEN Append(events, getFakeLoaderPauseEvent)
                        ELSE events ]_vars

(***************************************************************************)
(* Properties of the terminal URIs.                                        *)
(***************************************************************************)
\* Two URIs, neither with the token of this instance, that differ in the
\* trusted fields and in their tokens at most.
AlikeUntrusted(query, other) ==
  /\ query.trustToken # trustToken
  /\ other.trustToken # trustToken
  /\ \A name \in { "title", "key", "remainOnCleanExit", "defaultLocation",
                    "icon" } : query[name] = other[name]

\* C30: infoFromUri returns a trusted field only for a trusted source or
\* the token of this instance; for a URI with neither it returns a result,
\* the same as for any other such URI that differs from it in the trusted
\* fields and the token only.
UntrustedUrisIndistinguishable ==
  opened # None =>
    LET call == opened[1]
    IN /\ DOMAIN call.outcome.info \cap TrustedFieldNames # { } =>
            \/ call.uriFromTrustedSource
            \/ call.query.trustToken = trustToken
       /\ ~call.uriFromTrustedSource /\ call.query.trustToken # trustToken =>
            /\ ~call.outcome.threw
            /\ \A other \in Queries :
                 AlikeUntrusted(call.query, other) =>
                   infoFromUri(other, FALSE) = call.outcome

(***************************************************************************)
(* C31.  For every byte stream made of well-formed frames, the sequence of *)
(* messages the decoder dispatches is the same however the stream is split *)
(* into data chunks, and equals the frames' bodies in stream order, each   *)
(* dispatched once; a frame with Content-Length 0 dispatches nothing and   *)
(* does not disturb the frames after it.  Stated over the steps of the     *)
(* stream: Decoded is what has been dispatched followed by what the        *)
(* decoder makes of all that is unread when it is emitted as one chunk;    *)
(* a chunk of any length leaves Decoded as it is, and a frame the adapter  *)
(* writes adds its body to it, or nothing when the body is empty, and      *)
(* leaves the decoder between two frames.                                  *)
(***************************************************************************)
DecodedOf(rawData, length, dispatched, rest) ==
  LET d == handleData([ rawData |-> rawData \o rest,
                        contentLength |-> length, out |-> << >> ])
  IN [ d EXCEPT !.out = [ i \in 1 .. Len(dispatched) |-> dispatched[i].text ]
                          \o d.out ]

ChunkSplitIndependent ==
  [][ \E before \in { DecodedOf(rawDataBuffer, contentLength, received,
                                unread) } :
      \E rawData \in { rawDataBuffer' }, length \in { contentLength' },
         dispatched \in { received' }, rest \in { unread' } :
      \E after \in { DecodedOf(rawData, length, dispatched, rest) } :
        /\ Len(rest) < Len(unread) => after = before
        /\ \A body \in StreamBodies :
             rest = unread \o Frame(body) =>
               /\ after.out = before.out \o (IF body = << >> THEN << >>
                                              ELSE << body >>)
               /\ after.rawData = << >>
               /\ after.contentLength = -1 ]_vars

\* A chunk has ended inside a body, after a message was dispatched, and
\* more is unread.
ChunkSplitIndependentWitness ==
  /\ received # << >>
  /\ contentLength = 2
  /\ Len(rawDataBuffer) = 1
  /\ unread # << >>

\* A chunk has ended inside a header.
SplitInsideHeader ==
  /\ contentLength = -1
  /\ rawDataBuffer # << >>
  /\ received # << >>

(***************************************************************************)
(* C32.  For every stopped event that is not cancelled: if it expanded no  *)
(* thread the synthetic Debugger.paused (no call frames, reason            *)
(* Async-Break, stopThreadId -1) is sent; otherwise exactly the paused     *)
(* event of the active paused thread is sent, so a Debugger.paused is sent *)
(* whenever a thread was expanded.  In both cases a                        *)
(* Debugger.threadsUpdated with stopThreadId the active thread, or -1,     *)
(* follows it.  Stated over the step in which the stop's subscriber runs.  *)
(***************************************************************************)
SubscriberRan(n) ==
  /\ stops'[n].status = "done"
  /\ n <= Len(stops) => stops[n].status # "done"

SentBy(n) ==
  LET sent == SubSeq(events', Len(events) + 1, Len(events'))
  IN SelectSeq(sent, LAMBDA m : IsEvent(m, "Debugger.paused") /\ m.stop = n)

AsyncBreak ==
  [ callFrames |-> << >>, reason |-> "Async-Break", stopThreadId |-> -1,
    threadSwitchMessage |-> None ]

ThreadsUpdatedFollows ==
  /\ threadsUpdated' # None
  /\ "stopThreadId" \in DOMAIN threadsUpdated'[1]
  /\ threadsUpdated'[1].stopThreadId =
       IF pausedThreadId' # None THEN pausedThreadId'[1] ELSE -1

PausedOfActiveThreadSent ==
  [][ \A n \in 1 .. Len(stops') :
        SubscriberRan(n) =>
          /\ ThreadsUpdatedFollows
          /\ IF stops'[n].ids = << >>
             THEN SentBy(n) = << PausedMessage(AsyncBreak, n) >>
             ELSE /\ Len(SentBy(n)) = 1
                  /\ pausedThreadId' # None
                  /\ SentBy(n)[1].params.stopThreadId = pausedThreadId'[1]
                  /\ Some(SentBy(n)[1].params) \in Range(stops'[n].paused) ]_vars

\* The parts of it that the subscriber keeps: the synthetic event of a stop
\* without threads, the threadsUpdated that follows, and that a paused event
\* it sends is the one of the active thread.
PausedSentIsOfActiveThread ==
  [][ \A n \in 1 .. Len(stops') :
        SubscriberRan(n) =>
          /\ ThreadsUpdatedFollows
          /\ IF stops'[n].ids = << >>
             THEN SentBy(n) = << PausedMessage(AsyncBreak, n) >>
             ELSE /\ Len(SentBy(n)) <= 1
                  /\ Len(SentBy(n)) = 1 =>
                       /\ pausedThreadId' # None
                       /\ SentBy(n)[1].params.stopThreadId = pausedThreadId'[1]
                       /\ Some(SentBy(n)[1].params) \in Range(stops'[n].paused)
                  /\ Len(SentBy(n)) = 0 =>
                       pausedThreadId' # Some(stops'[n].ids[1]) ]_vars

\* The active thread is among the threads the stop expanded, and the stop
\* sends no Debugger.paused.
ActiveThreadExpandedUnsent ==
  [][ \A n \in 1 .. Len(stops') :
        SubscriberRan(n) /\ pausedThreadId' # None
        /\ pausedThreadId'[1] \in Range(stops'[n].ids)
          => Len(SentBy(n)) = 1 ]_vars

(***************************************************************************)
(* C33.  Debugger.getThreadStack for a paused thread whose frames are not  *)
(* fully loaded sends one stackTrace request without a levels limit and    *)
(* caches the result as fully loaded: callStackLoaded is true after it, so *)
(* a second Debugger.getThreadStack for the thread during the same pause   *)
(* sends no further request.  For a thread that is unknown or running it   *)
(* sends no adapter request and returns callFrames = [].                   *)
(***************************************************************************)
\* The call frames of the stack with every frame's scopes answered.
FullStack(threadId) ==
  Map(StackOf(threadId), LAMBDA frame :
        TranslateFrame(frame, TranslatedScopes(frame.id, TRUE)))

\* The ThreadInfo the handler holds is the one the map has for the thread.
HoldsMapped(owner, threadId) ==
  \E i \in 1 .. Len(threadsById) :
    /\ threadsById[i].id = threadId
    /\ threadsById[i].ref = owner[3]

\* The step in which the fetch of a Debugger.getThreadStack returns with
\* every frame and its scopes: the answer to its last scopes request.
ThreadStackReturns(fetch, request) ==
  /\ fetch.owner = request.owner
  /\ request.owner[1] = "stack"
  /\ RespScopes(request, TRUE)
  /\ fetch \notin fetches'
  /\ \A f \in fetches' : f.owner # request.owner

ThreadStackCached ==
  [][ /\ \A threadId \in ThreadIds :
           CmdGetThreadStack(threadId) =>
             LET paused == /\ MapHas(threadsById, threadId)
                           /\ MapGet(threadsById, threadId).state = "paused"
             IN /\ paused /\ ~MapGet(threadsById, threadId).callStackLoaded =>
                     \E request \in pending' :
                       /\ pending' \ pending = { request }
                       /\ request.command = "stackTrace"
                       /\ request.arguments =
                            [ threadId |-> threadId, levels |-> None ]
                /\ ~paused =>
                     /\ pending' = pending
                     /\ responses'[nextId] =
                          << [ id |-> nextId,
                               result |-> [ callFrames |-> << >> ] ] >>
      /\ \A fetch \in fetches, request \in pending :
           /\ ThreadStackReturns(fetch, request)
           /\ HoldsMapped(request.owner, fetch.threadId)
           => MapGet(threadsById', fetch.threadId).callStackLoaded ]_vars

\* What the handler keeps: the request it sends, the answer for a thread
\* that is not paused, and that the frames it fetched are stored.
ThreadStackFetched ==
  [][ /\ \A threadId \in ThreadIds :
           CmdGetThreadStack(threadId) =>
             LET paused == /\ MapHas(threadsById, threadId)
                           /\ MapGet(threadsById, threadId).state = "paused"
             IN /\ paused /\ ~MapGet(threadsById, threadId).callStackLoaded =>
                     \E request \in pending' :
                       /\ pending' \ pending = { request }
                       /\ request.command = "stackTrace"
                       /\ request.arguments =
                            [ threadId |-> threadId, levels |-> None ]
                /\ ~paused =>
                     /\ pending' = pending
                     /\ responses'[nextId] =
                          << [ id |-> nextId,
                               result |-> [ callFrames |-> << >> ] ] >>
      /\ \A fetch \in fetches, request \in pending :
           /\ ThreadStackReturns(fetch, request)
           /\ HoldsMapped(request.owner, fetch.threadId)
           => /\ MapGet(threadsById', fetch.threadId).callFrames =
                   Some(FullStack(fetch.threadId))
              /\ MapGet(threadsById', fetch.threadId).callStackLoaded =
                   MapGet(threadsById, fetch.threadId).callStackLoaded ]_vars

\* A paused thread holds its whole stack, and the command fetches it again.
WholeStackFetchedAgain ==
  [][ \A threadId \in ThreadIds :
        /\ CmdGetThreadStack(threadId)
        /\ MapHas(threadsById, threadId)
        /\ MapGet(threadsById, threadId).state = "paused"
        /\ MapGet(threadsById, threadId).callFrames =
             Some(FullStack(threadId))
        => pending' = pending ]_vars

(***************************************************************************)
(* C34.  Every Debugger.setBreakpointByUrl command eventually receives     *)
(* exactly one response, provided the adapter answers every request and    *)
(* the session is not disposed, also when it arrives after the first       *)
(* Debugger.resume while the startup sync or the configuration round trips *)
(* are in flight.  Stated over finite runs: no command has two responses,  *)
(* and a command that arrives is answered or held by a handler that will   *)
(* answer it: it is in the buffer or owns a sync.                          *)
(***************************************************************************)
HeldOrAnswered(id) ==
  \/ \E i \in 1 .. Len(buffered') : buffered'[i].id = id
  \/ \E t \in syncs' : t.owner = CommandOwner("set", id)
  \/ Len(responses'[id]) = 1

SetBreakpointAlwaysAnswered ==
  /\ [](\A id \in DOMAIN responses : Len(responses[id]) <= 1)
  /\ [][ \A url \in Paths, lineNumber \in ClientLines :
           CmdSetBreakpointByUrl(url, lineNumber) => HeldOrAnswered(nextId)
       ]_vars

\* The same of the commands that arrive while the buffer is open or after
\* the startup flatMap has returned.
SetBreakpointAnsweredOutsideStartup ==
  /\ [](\A id \in DOMAIN responses : Len(responses[id]) <= 1)
  /\ [][ \A url \in Paths, lineNumber \in ClientLines :
           CmdSetBreakpointByUrl(url, lineNumber) /\ bpStage # "closed"
             => HeldOrAnswered(nextId) ]_vars

(***************************************************************************)
(* C35.  Every Debugger.setPauseOnExceptions and every                     *)
(* Debugger.continueToLocation command eventually receives a response with *)
(* its own id, provided the adapter answers every request, also when it is *)
(* superseded by a later command of the same method while its adapter call *)
(* is in flight.  Stated over finite runs: the step in which the adapter   *)
(* answers the call of such a command gives the command its response.      *)
(***************************************************************************)
CallAnswered(request) ==
  /\ request \in pending
  /\ request \notin pending'
  /\ request.owner[1] \in { "exc", "location" }
  /\ request.command # "registerFile"
  /\ ~disposed'

OwnResponse(id) ==
  /\ Len(responses'[id]) = 1
  /\ responses'[id][1].id = id

SwitchedCommandsAnswered ==
  [][ \A request \in pending :
        CallAnswered(request) => OwnResponse(request.owner[2]) ]_vars

\* The same of the commands that no later command of their method has
\* superseded.
LatestCommandAnswered ==
  [][ \A request \in pending :
        /\ CallAnswered(request)
        /\ request.owner[1] = "exc" => switchLatest.exc.id = request.owner[2]
        /\ request.owner[1] = "location" =>
             switchLatest.location.id = request.owner[2]
        => OwnResponse(request.owner[2]) ]_vars

(***************************************************************************)
(* C36.  Whenever configDoneSent is true and no                            *)
(* Debugger.setPauseOnExceptions handler is in flight, the filters of the  *)
(* last setExceptionBreakpoints request the adapter received equal the     *)
(* session's exceptionFilters, also when a Debugger.setPauseOnExceptions   *)
(* arrived during startup, after the startup setExceptionBreakpoints was   *)
(* sent and before configDoneSent became true.                             *)
(***************************************************************************)
PauseHandlerInFlight ==
  \E request \in pending : request.owner[1] = "exc"

AdapterHasSessionFilters ==
  configDoneSent /\ ~PauseHandlerInFlight
    => adapterFilters = Some(exceptionFilters)

\* The same, of the commands that arrive once configDoneSent is true: a
\* step that changes exceptionFilters then sends them to the adapter.
FiltersSentOnceConfigured ==
  [][ configDoneSent /\ exceptionFilters' # exceptionFilters
        => adapterFilters' = Some(exceptionFilters') ]_vars

(***************************************************************************)
(* C37.  If launch/attach succeeds and the first initialized event         *)
(* arrives, then after the first Debugger.resume the translator eventually *)
(* sends setExceptionBreakpoints (and configurationDone when supported)    *)
(* and sets configDoneSent, whatever the outcome of the buffered           *)
(* breakpoint sync: a failed setBreakpoints request or a response of the   *)
(* wrong length included.  Stated over finite runs: the step that ends the *)
(* startup's breakpoint sync sends the startup's setExceptionBreakpoints.  *)
(***************************************************************************)
ConfigurationFollowsSync ==
  [][ startup.pc = "bulk" /\ startup.pc' # "bulk" =>
        /\ startup.pc' = "exc"
        /\ \E request \in pending' \ pending :
             /\ request.command = "setExceptionBreakpoints"
             /\ request.owner = StartupOwner ]_vars

\* A startup whose breakpoint sync succeeded goes on to configure, and a
\* startup that failed leaves configDoneSent false for as long as no second
\* initialized event starts a re-sync.
ConfigurationFollowsGoodSync ==
  /\ [](startup.pc = "failed" /\ initializedCount < 2 => ~configDoneSent)
  /\ [][ startup.pc = "bulk" /\ startup.pc' \notin { "bulk", "failed" } =>
           /\ startup.pc' = "exc"
           /\ \E request \in pending' \ pending :
                /\ request.command = "setExceptionBreakpoints"
                /\ request.owner = StartupOwner ]_vars

(***************************************************************************)
(* C38.  After a thread event with reason 'exited' for thread T, T is      *)
(* absent from the thread map and from every later Debugger.threadsUpdated *)
(* until a later adapter event names or includes T, also when a stopped    *)
(* event that expanded T was still fetching stack traces when T exited.    *)
(* Stated over two steps: the exit removes T from the map and from the     *)
(* threadsUpdated it sends; and the subscriber of a stop that took T from  *)
(* the thread map when it arrived, and finds it gone (only an exit removes *)
(* a thread), does not put T back.                                         *)
(***************************************************************************)
Reported(threadId) ==
  /\ threadsUpdated' # None
  /\ \E i \in 1 .. Len(threadsUpdated'[1].threads) :
       threadsUpdated'[1].threads[i].id = threadId

ExitRemovesThread ==
  [][ \A threadId \in ThreadIds :
        EvThread("exited", threadId) =>
          ~MapHas(threadsById', threadId) /\ ~Reported(threadId) ]_vars

ExitedThreadStaysAbsent ==
  /\ ExitRemovesThread
  /\ [][ \A n \in 1 .. Len(stops), threadId \in ThreadIds :
           /\ SubscriberRan(n)
           /\ threadId \in Range(stops[n].ids)
           /\ stops[n].threadId # Some(threadId)
           /\ ~MapHas(threadsById, threadId)
           => ~MapHas(threadsById', threadId) /\ ~Reported(threadId) ]_vars

(***************************************************************************)
(* C39.  In a startup batch of setBreakpointByUrl commands that covers     *)
(* several files, a failed setBreakpoints for one file does not turn into  *)
(* errors the responses of the commands for other files whose own          *)
(* setBreakpoints succeeded: those commands receive their normal result    *)
(* with breakpointId, location and resolved.  Stated over the step in      *)
(* which the batch fails, of the files synced before it, and over the step *)
(* that answers the setBreakpoints of a file after the batch has failed.   *)
(***************************************************************************)
NormalResults(commands, results) ==
  \A i \in DOMAIN commands :
    /\ responses'[commands[i].id] = << results[i] >>
    /\ ~IsError(results[i])
    /\ DOMAIN results[i].result = { "breakpointId", "locations", "resolved" }

OtherFilesKeepResults ==
  [][ /\ startup.pc = "bulk" /\ startup.pc' = "failed" =>
           \A t \in syncs :
             t.owner = StartupOwner /\ t.pc = "ok"
               => NormalResults(t.commands, t.result)
      /\ \A request \in PendingOf("setBreakpoints") :
           \A response \in SetBreakpointsResponses(request.arguments) :
             /\ RespSetBreakpoints(request, response)
             /\ request.owner = StartupOwner
             /\ SyncOf(request).detached
             /\ response.success
             /\ Len(response.breakpoints) = Len(request.arguments.lines)
             => NormalResults(
                  SyncOf(request).commands,
                  [ i \in DOMAIN SyncOf(request).commands |->
                      SetBreakpointResult(breakpoints', SyncOf(request).items[i],
                                          SyncOf(request).commands[i]) ])
    ]_vars

\* A batch whose files all succeed answers every command with its result.
GoodBatchKeepsResults ==
  [][ startup.pc = "bulk" /\ startup.pc' = "exc" =>
        \A t \in syncs :
          t.owner = StartupOwner /\ t.pc = "ok" =>
            \A i \in DOMAIN t.commands :
              /\ t.result[i] \in Range(startup'.results)
              /\ ~IsError(t.result[i]) ]_vars

\* Once the startup has returned, its commands hold one response each, and
\* after a failure every one of them is an error, unless the session was
\* disposed before they were answered.
FailedBatchAnswersErrors ==
  startup.pc = "failed" /\ ~disposed =>
    \A i \in DOMAIN startup.commands :
      /\ Len(responses[startup.commands[i].id]) = 1
      /\ IsError(responses[startup.commands[i].id][1])

(***************************************************************************)
(* C40.  After a Debugger.removeBreakpoint for an existing id B has been   *)
(* answered and every breakpoint handler in flight has finished, the       *)
(* ledger holds no record with id B and the last setBreakpoints request    *)
(* the adapter received for B's file does not list B's line, unless        *)
(* another ledger record holds that line; also when a                      *)
(* Debugger.setBreakpointByUrl for the same file was suspended on file     *)
(* registration when the removal ran.  A removeBreakpoint for an unknown   *)
(* id sends no adapter request and leaves the ledger unchanged.  Lines     *)
(* leave the ledger by removal only, so the second part reads: with no     *)
(* handler in flight, every line of the last request is the line of a      *)
(* ledger record of the file.                                              *)
(***************************************************************************)
NoBreakpointHandlerInFlight ==
  syncs = { } /\ PendingOf("setBreakpoints") = { }

RemovedLinesUnlisted ==
  \A path \in Paths :
    adapterLines[path] # None /\ NoBreakpointHandlerInFlight
      => Range(adapterLines[path][1]) \subseteq Range(LedgerLines(path))

RemovalDropsRecord ==
  [][ \A breakpointId \in KnownIds :
        CmdRemoveBreakpoint(breakpointId) =>
          \A i \in 1 .. Len(breakpoints') :
            breakpoints'[i].breakpointId # breakpointId ]_vars

UnknownRemovalDoesNothing ==
  [][ \A breakpointId \in { "0" } \ KnownIds :
        CmdRemoveBreakpoint(breakpointId) =>
          /\ pending' = pending
          /\ UNCHANGED << ledgerVars, adapterLines >> ]_vars

RemovedBreakpointGone ==
  /\ []RemovedLinesUnlisted
  /\ RemovalDropsRecord
  /\ UnknownRemovalDoesNothing

\* The removal's own request: it lists the lines of the file's records that
\* carry another id, and no other line.
RemovalRequestUnlists ==
  [][ \A breakpointId \in KnownIds :
        CmdRemoveBreakpoint(breakpointId) =>
          \E i \in 1 .. Len(breakpoints) :
            /\ breakpoints[i].breakpointId = breakpointId
            /\ adapterLines'[breakpoints[i].path] =
                 Some(Map(SelectSeq(
                            getBreakpointsForFilePath(breakpoints,
                                                      breakpoints[i].path),
                            LAMBDA bp : bp.breakpointId # breakpointId),
                          LAMBDA bp : bp.lineNumber)) ]_vars

====
